---- MODULE Spec2Model ----
(***************************************************************************)
(* A model of the receive side of Homa (homa_incoming.c): reassembly of    *)
(* inbound messages, the grantable list and the grant engine, and the      *)
(* handoff of ready RPCs to receiver threads.                              *)
(***************************************************************************)
EXTENDS Integers, Sequences, FiniteSets, TLC

\* ------------------------------------------------------------------ bounds
\* Largest message length (bytes) of the reassembly specification.
MsgLen == 5
\* Largest segment length of a DATA packet in the reassembly specification.
MaxSeg == 3
\* Longest packet queue (msgin.packets) the model follows.
MaxQueue == 1
\* Segment length of the senders of the grant specification.
GrantSeg == 2
\* Bytes of a response beyond its unscheduled bytes (two segments).
GrantTail == 1

\* ------------------------------------------------------------------ state
VARIABLES
    msgin,      \* rpc -> struct homa_message_in (rpc->msgin)
    rpcs,       \* rpc -> the other fields of struct homa_rpc, and its lock
    homa,       \* struct homa: configuration, total_incoming, the grantable list
    hsk,        \* struct homa_sock: ready lists, interest lists, shutdown
    interests,  \* receiver thread -> its struct homa_interest
    wire,       \* rpc -> what the sender's DATA headers and the buffer pool say
    pc,         \* thread -> where it is in the function it executes
    loc,        \* thread -> local variables of the function it executes
    cover,      \* ghost: rpc -> [offset -> number of accepted packets covering it]
    marked,     \* ghost: rpc -> one accepted packet (offset, length), or NoPkt
    copied,     \* ghost: rpc -> offsets that homa_copy_to_user has copied out
    last,       \* ghost: the latest homa_add_packet call and its outcome, or
                \* the packet handler homa_pkt_dispatch called last
    sent,       \* ghost: the FIFO GRANT, ACK and UNKNOWN packets transmitted
    races       \* ghost: the FIFO grants chosen for one RPC by two cores at once

ghostVars == <<cover, marked, copied, last, sent, races>>
vars == <<msgin, rpcs, homa, hsk, interests, wire, pc, loc, cover, marked, copied, last,
          sent, races>>

\* RPC ids of the model; the low bit tells client RPCs from server RPCs.
Rpcs == {2, 3, 4, 6}
homa_is_client(id) == id % 2 = 0
\* The request of server RPC 3 and the responses of 2 and 4 come from one
\* peer, the response of 6 from another.
Peer(r) == IF r = 6 THEN "peer2" ELSE "peer1"

\* Packet handling cores (softirq) and receiver (application) threads.
Cores == {"c1", "c2"}
Receivers == {"t1", "t2"}
Threads == Cores \cup Receivers
NoThread == "none"
NULL == 0
\* The max_overcommit sysctl parameter cannot be greater than this.
MAX_GRANTS == 10

\* The RPC the reassembly specification feeds packets to.
R1 == 2

Min(a, b) == IF a < b THEN a ELSE b
Max(a, b) == IF a > b THEN a ELSE b

\* A DATA packet, as far as homa_add_packet reads it: seg.offset, seg.segment_length.
Pkt(offset, length) == [offset |-> offset, length |-> length]

\* Number of buffer pages homa_pool_allocate leaves in msgin.num_bpages.
homa_message_in_init(length, unsched, bpages) ==
    [length          |-> length,
     packets         |-> <<>>,
     recv_end        |-> 0,
     gaps            |-> <<>>,
     bytes_remaining |-> length,
     granted         |-> IF bpages = 0 THEN 0
                         ELSE IF unsched > length THEN length ELSE unsched,
     priority        |-> 0,
     scheduled       |-> length > unsched,
     resend_all      |-> FALSE,
     num_bpages      |-> bpages,
     birth           |-> 0]

\* struct homa_gap
Gap(start, end) == [start |-> start, end |-> end]

\* homa_gap_new: a new gap linked just before list position `next`
\* (Len(gaps) + 1 is the list head, i.e. the new gap goes to the tail).
homa_gap_new(gaps, next, start, end) ==
    SubSeq(gaps, 1, next - 1) \o <<Gap(start, end)>> \o SubSeq(gaps, next, Len(gaps))

RemoveAt(s, i) == SubSeq(s, 1, i - 1) \o SubSeq(s, i + 1, Len(s))

\* A variant of GapStep that lacks the test of line 135 (a packet aligned
\* with the start of a gap but reaching past its end is taken).
GapStep_NoEndCheck(gap, start, end) ==
    IF start <= gap.start
    THEN IF end <= gap.start THEN "continue"
         ELSE IF start < gap.start THEN "discard"
         ELSE "trim_start"
    ELSE IF end >= gap.end
    THEN IF start >= gap.end THEN "continue"
         ELSE IF end > gap.end THEN "discard"
         ELSE "trim_end"
    ELSE "split"

\* A variant of GapStep that lacks the tests of lines 127-134 (a packet
\* that starts at or before the gap is taken to start the gap).
GapStep_NoBeforeCheck(gap, start, end) ==
    IF start <= gap.start
    THEN IF end > gap.end THEN "discard"
         ELSE "trim_start"
    ELSE IF end >= gap.end
    THEN IF start >= gap.end THEN "continue"
         ELSE IF end > gap.end THEN "discard"
         ELSE "trim_end"
    ELSE "split"

\* One iteration of the list_for_each_entry_safe loop of homa_add_packet:
\* what the packet [start, end) does to `gap`.
GapStep(gap, start, end) ==
    IF start <= gap.start
    THEN IF end <= gap.start THEN "continue"
         ELSE IF start < gap.start THEN "discard"
         ELSE IF end > gap.end THEN "discard"
         ELSE "trim_start"
    ELSE IF end >= gap.end
    THEN IF start >= gap.end THEN "continue"
         ELSE IF end > gap.end THEN "discard"
         ELSE "trim_end"
    ELSE "split"

\* A variant of TrimStart that never frees the gap.
TrimStart_NoFree(gaps, i, end) ==
    [gaps EXCEPT ![i].start = end]

\* gap->start = end, and the gap is unlinked and freed once it is empty.
TrimStart(gaps, i, end) ==
    IF end >= gaps[i].end THEN RemoveAt(gaps, i)
    ELSE [gaps EXCEPT ![i].start = end]

\* The list_for_each_entry_safe loop of homa_add_packet over msgin.gaps,
\* from list position i on. keep = FALSE is "goto discard" (also when the
\* loop runs off the end of the list).
RECURSIVE GapWalk(_, _, _, _)
GapWalk(gaps, i, start, end) ==
    IF i > Len(gaps) THEN [keep |-> FALSE, gaps |-> gaps]
    ELSE LET step == GapStep(gaps[i], start, end) IN
        CASE step = "continue" -> GapWalk(gaps, i + 1, start, end)
          [] step = "discard" -> [keep |-> FALSE, gaps |-> gaps]
          [] step = "trim_start" -> [keep |-> TRUE, gaps |-> TrimStart(gaps, i, end)]
          [] step = "trim_end" ->
                [keep |-> TRUE, gaps |-> [gaps EXCEPT ![i].end = start]]
          [] step = "split" ->
                [keep |-> TRUE,
                 gaps |-> [homa_gap_new(gaps, i, gaps[i].start, start)
                               EXCEPT ![i + 1].start = end]]

\* The "keep:" exit of homa_add_packet.
Keep(m, pkt, recv_end, gaps) ==
    [keep  |-> TRUE,
     msgin |-> [m EXCEPT !.recv_end = recv_end,
                         !.gaps = gaps,
                         !.packets = Append(m.packets, pkt),
                         !.bytes_remaining = m.bytes_remaining - pkt.length]]

\* The packet creates a new gap (lines 114-119): the gap is [recv_end, start)
\* and recv_end moves to the end of the packet.
NewGap(m, pkt) ==
    Keep(m, pkt, pkt.offset + pkt.length,
         homa_gap_new(m.gaps, Len(m.gaps) + 1, m.recv_end, pkt.offset))

\* A variant of homa_add_packet whose new-gap case moves recv_end to the
\* start of the packet instead of its end.
homa_add_packet_RecvEndAtStart(m, pkt) ==
    LET start == pkt.offset
        length == pkt.length
        end == start + length
    IN  IF start + length > m.length THEN [keep |-> FALSE, msgin |-> m]
        ELSE IF start = m.recv_end THEN Keep(m, pkt, m.recv_end + length, m.gaps)
        ELSE IF start > m.recv_end
             THEN Keep(m, pkt, start,
                       homa_gap_new(m.gaps, Len(m.gaps) + 1, m.recv_end, start))
        ELSE LET w == GapWalk(m.gaps, 1, start, end)
             IN  IF w.keep THEN Keep(m, pkt, m.recv_end, w.gaps)
                 ELSE [keep |-> FALSE, msgin |-> m]

\* A variant of homa_add_packet without the test of line 101.
homa_add_packet_NoLengthCheck(m, pkt) ==
    LET start == pkt.offset
        length == pkt.length
        end == start + length
    IN  IF start = m.recv_end THEN Keep(m, pkt, m.recv_end + length, m.gaps)
        ELSE IF start > m.recv_end THEN NewGap(m, pkt)
        ELSE LET w == GapWalk(m.gaps, 1, start, end)
             IN  IF w.keep THEN Keep(m, pkt, m.recv_end, w.gaps)
                 ELSE [keep |-> FALSE, msgin |-> m]

\* homa_add_packet: the message after the call, and whether the packet
\* was queued (keep) or freed (discard).
homa_add_packet(m, pkt) ==
    LET start == pkt.offset
        length == pkt.length
        end == start + length
    IN  IF start + length > m.length THEN [keep |-> FALSE, msgin |-> m]
        ELSE IF start = m.recv_end THEN Keep(m, pkt, m.recv_end + length, m.gaps)
        ELSE IF start > m.recv_end THEN NewGap(m, pkt)
        ELSE LET w == GapWalk(m.gaps, 1, start, end)
             IN  IF w.keep THEN Keep(m, pkt, m.recv_end, w.gaps)
                 ELSE [keep |-> FALSE, msgin |-> m]

\* ------------------------------------------------------- reassembly spec
NoPkt == Pkt(0 - 1, 0)
NoCall == [keep |-> FALSE, dup |-> FALSE, called |-> FALSE]

\* Ghost bookkeeping of an accepted packet.
Covered(c, pkt) ==
    [o \in DOMAIN c |->
        IF pkt.offset <= o /\ o < pkt.offset + pkt.length THEN c[o] + 1 ELSE c[o]]

\* msgin of an RPC that has not seen a DATA packet yet (length < 0).
NoMsg == [homa_message_in_init(0 - 1, 0, 1) EXCEPT !.granted = 0]

\* msgout of an RPC whose outgoing message has not been set up (length < 0).
NoMsgOut == [length |-> 0 - 1, granted |-> 0, next_xmit_offset |-> 0, sched_priority |-> 0]

\* struct homa_rpc without msgin; lock is the thread that holds the RPC lock.
NewRpc(st) ==
    [state |-> st, flags |-> {}, error |-> 0, interest |-> NoThread,
     lock |-> NoThread, grants_in_progress |-> 0, msgout |-> NoMsgOut]

\* struct homa_peer of the one peer that sends control packets: the cutoffs
\* it announced and the ids waiting to be acknowledged to it.
NewPeer == [unsched_cutoffs |-> 0, cutoff_version |-> 0, acks |-> <<>>]

\* struct homa after homa_init with the given configuration.
NewHoma(cfg) ==
    [max_incoming |-> cfg.max_incoming, window |-> cfg.window,
     max_overcommit |-> cfg.max_overcommit,
     max_rpcs_per_peer |-> cfg.max_rpcs_per_peer,
     max_sched_prio |-> cfg.max_sched_prio,
     unsched_bytes |-> cfg.unsched_bytes,
     grant_fifo_fraction |-> cfg.grant_fifo_fraction,
     fifo_grant_increment |-> cfg.fifo_grant_increment,
     grant_nonfifo |-> 0, grant_nonfifo_left |-> 0,
     total_incoming |-> 0, grantable_rpcs |-> <<>>, num_grantable_rpcs |-> 0,
     clock |-> 1, peer |-> NewPeer]

NoConfig ==
    [max_incoming |-> 0, window |-> 0, max_overcommit |-> 0, max_rpcs_per_peer |-> 0,
     max_sched_prio |-> 0, unsched_bytes |-> 0, grant_fifo_fraction |-> 0,
     fifo_grant_increment |-> 0]

NewSock ==
    [shutdown |-> FALSE, lock |-> NoThread,
     ready_requests |-> <<>>, ready_responses |-> <<>>,
     request_interests |-> <<>>, response_interests |-> <<>>]

\* homa_interest_init
homa_interest_init(busy) ==
    [ready_rpc |-> NULL, reg_rpc |-> NULL, locked |-> FALSE, core_busy |-> busy]

NoLoc ==
    [rpc |-> NULL, delta |-> 0, available |-> 0, grants |-> <<>>,
     fifo_rpc |-> NULL, fifo_grant |-> 0, ret |-> "idle", error |-> 0,
     skbs |-> <<>>, flags |-> {}, id |-> 0, result |-> 0, signal |-> FALSE]

\* The state shared by all specifications before any thread has run.
InitCommon ==
    /\ rpcs = [r \in Rpcs |-> NewRpc(IF homa_is_client(r) THEN "RPC_OUTGOING" ELSE "NONE")]
    /\ hsk = NewSock
    /\ interests = [t \in Receivers |-> homa_interest_init(FALSE)]
    /\ pc = [t \in Threads |-> "idle"]
    /\ loc = [t \in Threads |-> NoLoc]
    /\ cover = [r \in Rpcs |-> [o \in 0..(MsgLen - 1) |-> 0]]
    /\ marked = [r \in Rpcs |-> NoPkt]
    /\ copied = [r \in Rpcs |-> {}]
    /\ last = NoCall
    /\ sent = {}
    /\ races = {}

InitReasm ==
    /\ InitCommon
    /\ homa = NewHoma(NoConfig)
    /\ \E length \in 1..MsgLen :
          /\ wire = [r \in Rpcs |-> [message_length |-> length, incoming |-> length,
                                      bpages |-> 1]]
          /\ msgin = [r \in Rpcs |->
                        IF r = R1 THEN homa_message_in_init(length, length, 1) ELSE NoMsg]

\* One call homa_add_packet(rpc, skb) with an arbitrary segment. The ghost
\* `marked` remembers one accepted packet, chosen freely among all of them.
AddPacket(r, pkt) ==
    LET res == homa_add_packet(msgin[r], pkt) IN
    /\ Len(msgin[r].packets) < MaxQueue
    /\ msgin' = [msgin EXCEPT ![r] = res.msgin]
    /\ cover' = IF res.keep THEN [cover EXCEPT ![r] = Covered(@, pkt)] ELSE cover
    /\ \/ marked' = marked
       \/ res.keep /\ marked[r] = NoPkt /\ marked' = [marked EXCEPT ![r] = pkt]
    /\ last' = [keep |-> res.keep, dup |-> pkt = marked[r], called |-> TRUE]
    /\ UNCHANGED <<rpcs, homa, hsk, interests, wire, pc, loc, copied, sent, races>>

\* __skb_dequeue(&rpc->msgin.packets): a receiver takes the oldest packet.
Dequeue(r) ==
    /\ msgin[r].packets # <<>>
    /\ msgin' = [msgin EXCEPT ![r].packets = Tail(@)]
    /\ UNCHANGED <<rpcs, homa, hsk, interests, wire, pc, loc, ghostVars>>

\* The segments a DATA packet may carry in the reassembly specification.
ReasmPkts == {Pkt(offset, length) : offset \in 0..MsgLen, length \in 0..MaxSeg}

NextReasm ==
    \/ \E pkt \in ReasmPkts : AddPacket(R1, pkt)
    \/ Dequeue(R1)

SpecReasm == InitReasm /\ [][NextReasm]_vars

\* ------------------------------------------------------------ grant engine
\* The operators below work on a "world": the shared state a function reads
\* and writes while it runs without interruption.
World ==
    [msgin |-> msgin, rpcs |-> rpcs, homa |-> homa, hsk |-> hsk,
     interests |-> interests]

IndexOf(list, x) == CHOOSE i \in 1..Len(list) : list[i] = x
InsertAt(list, i, x) == SubSeq(list, 1, i - 1) \o <<x>> \o SubSeq(list, i, Len(list))
Without(list, x) == SelectSeq(list, LAMBDA y : y # x)
Contains(list, x) == \E i \in 1..Len(list) : list[i] = x
MinOf(S) == CHOOSE x \in S : \A y \in S : x <= y

\* !list_empty(&rpc->grantable_links)
OnGrantable(w, r) == Contains(w.homa.grantable_rpcs, r)

\* homa_incoming_sysctl_changed: values derived from the configuration.
homa_incoming_sysctl_changed(h) ==
    LET fraction == Min(h.grant_fifo_fraction, 500)
        tmp == IF fraction # 0
               THEN (1000 * h.fifo_grant_increment) \div fraction
                        - h.fifo_grant_increment
               ELSE 0
    IN  [h EXCEPT !.grant_fifo_fraction = fraction,
                  !.grant_nonfifo = tmp,
                  !.max_overcommit = Min(@, MAX_GRANTS)]

\* homa_remove_grantable_locked
homa_remove_grantable_locked(w, r) ==
    [w EXCEPT !.homa.grantable_rpcs = Without(@, r),
              !.homa.num_grantable_rpcs = @ - 1]

\* The test of the loop without the tie-breaker of lines 938-942.
MovesAhead_NoTieBreak(m, r, candidate) ==
    IF m[candidate].bytes_remaining < m[r].bytes_remaining THEN FALSE
    ELSE TRUE

\* The test of the loop of homa_check_grantable (lines 934-943): TRUE when
\* rpc r is to be moved in front of its predecessor `candidate`.
MovesAhead(m, r, candidate) ==
    IF m[candidate].bytes_remaining < m[r].bytes_remaining THEN FALSE
    ELSE IF m[candidate].bytes_remaining = m[r].bytes_remaining
            /\ m[candidate].birth <= m[r].birth THEN FALSE
    ELSE TRUE

\* The while loop of homa_check_grantable for the RPC at position i.
RECURSIVE BubbleUp(_, _, _)
BubbleUp(m, list, i) ==
    IF i = 1 THEN list
    ELSE IF ~MovesAhead(m, list[i], list[i - 1]) THEN list
    ELSE BubbleUp(m, [list EXCEPT ![i - 1] = list[i], ![i] = list[i - 1]], i - 1)

\* Where homa_check_grantable links a message that is not yet tracked: in
\* front of the first RPC with more bytes_remaining, else at the tail.
InsertPosition(m, list, r) ==
    LET bigger == {i \in 1..Len(list) :
                      m[list[i]].bytes_remaining > m[r].bytes_remaining}
    IN  IF bigger = {} THEN Len(list) + 1 ELSE MinOf(bigger)

\* homa_check_grantable from homa_grantable_lock to homa_grantable_unlock.
\* get_cycles() is the counter homa.clock.
CheckGrantableLocked(w, r) ==
    IF w.rpcs[r].state = "RPC_DEAD" \/ w.msgin[r].granted >= w.msgin[r].length
    THEN w
    ELSE IF ~OnGrantable(w, r)
    THEN LET m == [w.msgin EXCEPT ![r].birth = w.homa.clock]
             list == w.homa.grantable_rpcs
         IN  [w EXCEPT !.msgin = m,
                       !.homa.grantable_rpcs = InsertAt(list, InsertPosition(m, list, r), r),
                       !.homa.num_grantable_rpcs = @ + 1,
                       !.homa.clock = @ + 1]
    ELSE [w EXCEPT !.homa.grantable_rpcs = BubbleUp(w.msgin, @, IndexOf(@, r))]

\* A variant of homa_check_grantable that re-ranks the RPCs on the list but
\* never links a new one.
homa_check_grantable_NoInsert(w, r) ==
    IF w.msgin[r].granted >= w.msgin[r].length \/ ~OnGrantable(w, r) THEN w
    ELSE CheckGrantableLocked(w, r)

\* homa_check_grantable
homa_check_grantable(w, r) ==
    IF w.msgin[r].granted >= w.msgin[r].length THEN w
    ELSE CheckGrantableLocked(w, r)

\* A variant of ChooseFrom that does not limit the RPCs of one peer.
RECURSIVE ChooseFrom_NoPeerLimit(_, _, _, _, _)
ChooseFrom_NoPeerLimit(h, i, chosen, count, max_rpcs) ==
    IF i > Len(h.grantable_rpcs) THEN chosen
    ELSE LET rpc == h.grantable_rpcs[i]
         IN  IF Len(chosen) + 1 >= max_rpcs THEN Append(chosen, rpc)
             ELSE ChooseFrom_NoPeerLimit(h, i + 1, Append(chosen, rpc), count, max_rpcs)

\* The loop of homa_choose_rpcs_to_grant from list position i on; count is
\* rpc_count (0 for a peer not yet in peers).
RECURSIVE ChooseFrom(_, _, _, _, _)
ChooseFrom(h, i, chosen, count, max_rpcs) ==
    IF i > Len(h.grantable_rpcs) THEN chosen
    ELSE LET rpc == h.grantable_rpcs[i]
             p == Peer(rpc)
             count2 == [count EXCEPT ![p] = @ + 1]
         IN  IF count[p] > 0 /\ count2[p] > h.max_rpcs_per_peer
             THEN ChooseFrom(h, i + 1, chosen, count2, max_rpcs)
             ELSE IF Len(chosen) + 1 >= max_rpcs THEN Append(chosen, rpc)
             ELSE ChooseFrom(h, i + 1, Append(chosen, rpc), count2, max_rpcs)

\* homa_choose_rpcs_to_grant
homa_choose_rpcs_to_grant(h, max_rpcs) ==
    ChooseFrom(h, 1, <<>>, [p \in {Peer(r) : r \in Rpcs} |-> 0], max_rpcs)


\* A variant of GrantPriority without the test of lines 1206-1207.
GrantPriority_NoFloor(max_sched_prio, rank, num_rpcs) ==
    LET extra_levels == max_sched_prio + 1 - num_rpcs
    IN  IF extra_levels >= 0
        THEN max_sched_prio - rank - extra_levels
        ELSE max_sched_prio - rank

\* A variant of GrantPriority that never shifts the priorities down to the
\* lowest levels.
GrantPriority_NoShift(max_sched_prio, rank, num_rpcs) ==
    LET priority == max_sched_prio - rank
    IN  IF priority < 0 THEN 0 ELSE priority

\* The priority homa_create_grants gives the RPC of the given rank
\* (lines 1197-1207).
GrantPriority(max_sched_prio, rank, num_rpcs) ==
    LET extra_levels == max_sched_prio + 1 - num_rpcs
        priority == IF extra_levels >= 0
                    THEN max_sched_prio - rank - extra_levels
                    ELSE max_sched_prio - rank
    IN  IF priority < 0 THEN 0 ELSE priority

\* A variant of NewGrant that does not cap the grant at the message length.
NewGrant_NoCap(m, window, available) ==
    LET received == m.length - m.bytes_remaining
        uncapped == received + window
        increment == uncapped - m.granted
    IN  IF increment > available
        THEN [wanted |-> increment, new_grant |-> m.granted + available,
              increment |-> available]
        ELSE [wanted |-> increment, new_grant |-> uncapped, increment |-> increment]

\* A variant of NewGrant that does not clip the increment to the bytes
\* available.
NewGrant_NoClip(m, window, available) ==
    LET received == m.length - m.bytes_remaining
        uncapped == received + window
        capped == IF uncapped > m.length THEN m.length ELSE uncapped
        increment == capped - m.granted
    IN  [wanted |-> increment, new_grant |-> capped, increment |-> increment]

\* What homa_create_grants computes for a message (lines 1161-1178): the
\* increment it wants (<= 0: no grant), and the new value of granted and the
\* increment after clipping to the bytes still available.
NewGrant(m, window, available) ==
    LET received == m.length - m.bytes_remaining
        uncapped == received + window
        capped == IF uncapped > m.length THEN m.length ELSE uncapped
        increment == capped - m.granted
    IN  IF increment > available
        THEN [wanted |-> increment, new_grant |-> m.granted + available,
              increment |-> available]
        ELSE [wanted |-> increment, new_grant |-> capped, increment |-> increment]

\* A variant of GrantTo that leaves a fully granted RPC on the grantable list.
GrantTo_NoRemove(w, rpc, new_grant) ==
    [w EXCEPT !.msgin[rpc].granted = new_grant,
              !.msgin[rpc].resend_all = FALSE,
              !.rpcs[rpc].grants_in_progress = @ + 1]

\* homa_create_grants, lines 1186-1213: record the grant in the RPC and
\* unlink the RPC once it is fully granted.
GrantTo(w, rpc, new_grant) ==
    LET w1 == [w EXCEPT !.msgin[rpc].granted = new_grant,
                        !.msgin[rpc].resend_all = FALSE,
                        !.rpcs[rpc].grants_in_progress = @ + 1]
    IN  IF new_grant = w.msgin[rpc].length
        THEN homa_remove_grantable_locked(w1, rpc)
        ELSE w1

\* The for loop of homa_create_grants from `rank` on. st carries the world,
\* available, granted_bytes and the grants created so far.
RECURSIVE CreateGrantsFrom(_, _, _, _)
CreateGrantsFrom(st, chosen, rank, window) ==
    IF rank >= Len(chosen) THEN st
    ELSE LET rpc == chosen[rank + 1]
             m == st.w.msgin[rpc]
             g == NewGrant(m, window, st.available)
         IN  IF g.wanted <= 0
             THEN CreateGrantsFrom(st, chosen, rank + 1, window)
             ELSE IF st.available <= 0 THEN st
             ELSE CreateGrantsFrom(
                    [w |-> GrantTo(st.w, rpc, g.new_grant),
                     available |-> st.available - g.increment,
                     granted_bytes |-> st.granted_bytes + g.increment,
                     grants |-> Append(st.grants,
                                 [rpc |-> rpc, offset |-> g.new_grant,
                                  priority |-> GrantPriority(st.w.homa.max_sched_prio,
                                                             rank, Len(chosen)),
                                  resend_all |-> m.resend_all])],
                    chosen, rank + 1, window)

\* homa_create_grants: the world after the call and the GRANT headers.
homa_create_grants(w, chosen, available) ==
    LET window == IF w.homa.window = 0
                  THEN w.homa.max_incoming \div (Len(chosen) + 1)
                  ELSE w.homa.window
        st == CreateGrantsFrom([w |-> w, available |-> available,
                                granted_bytes |-> 0, grants |-> <<>>],
                               chosen, 0, window)
    IN  [w |-> [st.w EXCEPT !.homa.grant_nonfifo_left = @ - st.granted_bytes,
                            !.homa.total_incoming = @ + st.granted_bytes],
         grants |-> st.grants]

\* The loop of homa_choose_fifo_grant from list position i on: the oldest
\* message whose bytes on the way are at most unsched_bytes (NULL if none).
RECURSIVE FifoOldest(_, _, _)
FifoOldest(w, i, oldest) ==
    IF i > Len(w.homa.grantable_rpcs) THEN oldest
    ELSE LET rpc == w.homa.grantable_rpcs[i]
             m == w.msgin[rpc]
             on_the_way == m.granted - (m.length - m.bytes_remaining)
         IN  IF oldest # NULL /\ m.birth >= w.msgin[oldest].birth
             THEN FifoOldest(w, i + 1, oldest)
             ELSE IF on_the_way > w.homa.unsched_bytes
             THEN FifoOldest(w, i + 1, oldest)
             ELSE FifoOldest(w, i + 1, rpc)

\* A variant of FifoGrant that does not cap granted at the message length.
FifoGrant_NoCap(w, oldest) ==
    [w EXCEPT !.msgin[oldest].granted = @ + w.homa.fifo_grant_increment,
              !.homa.total_incoming = @ + w.homa.fifo_grant_increment]

\* homa_choose_fifo_grant, lines 1270-1278: the pity grant for `oldest`.
FifoGrant(w, oldest) ==
    LET m == w.msgin[oldest]
        raised == m.granted + w.homa.fifo_grant_increment
    IN  IF raised >= m.length
        THEN [homa_remove_grantable_locked(w, oldest)
                EXCEPT !.msgin[oldest].granted = m.length,
                       !.homa.total_incoming =
                           @ + w.homa.fifo_grant_increment - (raised - m.length)]
        ELSE [w EXCEPT !.msgin[oldest].granted = raised,
                       !.homa.total_incoming = @ + w.homa.fifo_grant_increment]

\* A variant of homa_choose_fifo_grant that never finds an RPC.
homa_choose_fifo_grant_None(w) == [w |-> w, rpc |-> NULL]

\* homa_choose_fifo_grant: the world after the call and the RPC to send a
\* FIFO grant to (NULL if none).
homa_choose_fifo_grant(w) ==
    LET oldest == FifoOldest(w, 1, NULL) IN
    IF oldest = NULL THEN [w |-> w, rpc |-> NULL]
    ELSE LET w1 == FifoGrant(w, oldest)
             m == w1.msgin[oldest]
         IN  [w |-> w1,
              rpc |-> IF m.granted < m.length - m.bytes_remaining
                      THEN NULL ELSE oldest]

\* homa_send_grants, lines 1005-1011: the scheduled grants.
SendGrantsScheduled(w, available) ==
    homa_create_grants(w, homa_choose_rpcs_to_grant(w.homa, w.homa.max_overcommit),
                       available)

\* homa_send_grants from homa_grantable_lock to homa_grantable_unlock
\* (lines 1003-1021).
SendGrantsLocked(w, available) ==
    LET cg == SendGrantsScheduled(w, available)
    IN  IF cg.w.homa.grant_nonfifo_left <= 0
        THEN LET w2 == [cg.w EXCEPT !.homa.grant_nonfifo_left = @ + cg.w.homa.grant_nonfifo]
             IN  IF w2.homa.grant_fifo_fraction # 0
                 THEN LET f == homa_choose_fifo_grant(w2)
                      IN  [w |-> f.w, grants |-> cg.grants, fifo_rpc |-> f.rpc,
                           fifo_grant |-> IF f.rpc # NULL
                                          THEN f.w.msgin[f.rpc].granted ELSE 0]
                 ELSE [w |-> w2, grants |-> cg.grants, fifo_rpc |-> NULL,
                       fifo_grant |-> 0]
        ELSE [w |-> cg.w, grants |-> cg.grants, fifo_rpc |-> NULL, fifo_grant |-> 0]


\* ------------------------------------------------------------------ handoff
\* !list_empty(&rpc->ready_links)
OnReady(w, r) == Contains(w.hsk.ready_requests, r) \/ Contains(w.hsk.ready_responses, r)

\* homa_choose_interest that takes the first interest whatever its core.
homa_choose_interest_First(w, list) ==
    IF list # <<>> THEN list[1] ELSE NoThread

\* homa_choose_interest: the first interest whose core is not busy, else
\* the first interest, else none.
homa_choose_interest(w, list) ==
    LET idle == {i \in 1..Len(list) : ~w.interests[list[i]].core_busy}
    IN  IF idle # {} THEN list[MinOf(idle)]
        ELSE IF list # <<>> THEN list[1]
        ELSE NoThread

\* A variant of ThreadWaiting that leaves the interest on the lists and on
\* the RPC it is registered on.
ThreadWaiting_KeepsLinks(w, r, t) ==
    [w EXCEPT !.rpcs[r].flags = @ \cup {"RPC_HANDING_OFF"},
              !.interests[t].locked = FALSE,
              !.interests[t].ready_rpc = r]

\* homa_rpc_handoff from thread_waiting: on.
ThreadWaiting(w, r, t) ==
    LET reg == w.interests[t].reg_rpc
        w1 == [w EXCEPT !.rpcs[r].flags = @ \cup {"RPC_HANDING_OFF"},
                        !.interests[t].locked = FALSE,
                        !.interests[t].ready_rpc = r,
                        !.interests[t].reg_rpc = NULL,
                        !.hsk.request_interests = Without(@, t),
                        !.hsk.response_interests = Without(@, t)]
    IN  IF reg # NULL THEN [w1 EXCEPT !.rpcs[reg].interest = NoThread] ELSE w1

\* A homa_rpc_handoff that neither wakes a thread nor queues the RPC.
homa_rpc_handoff_Drop(w, r) == w

\* homa_rpc_handoff without the test of lines 1827-1829.
homa_rpc_handoff_NoTest(w, r) ==
    IF w.rpcs[r].interest # NoThread THEN ThreadWaiting(w, r, w.rpcs[r].interest)
    ELSE IF homa_is_client(r)
    THEN LET t == homa_choose_interest(w, w.hsk.response_interests)
         IN  IF t # NoThread THEN ThreadWaiting(w, r, t)
             ELSE [w EXCEPT !.hsk.ready_responses = Append(@, r)]
    ELSE LET t == homa_choose_interest(w, w.hsk.request_interests)
         IN  IF t # NoThread THEN ThreadWaiting(w, r, t)
             ELSE [w EXCEPT !.hsk.ready_requests = Append(@, r)]

\* homa_rpc_handoff
homa_rpc_handoff(w, r) ==
    IF "RPC_HANDING_OFF" \in w.rpcs[r].flags \/ OnReady(w, r) THEN w
    ELSE IF w.rpcs[r].interest # NoThread THEN ThreadWaiting(w, r, w.rpcs[r].interest)
    ELSE IF homa_is_client(r)
    THEN LET t == homa_choose_interest(w, w.hsk.response_interests)
         IN  IF t # NoThread THEN ThreadWaiting(w, r, t)
             ELSE [w EXCEPT !.hsk.ready_responses = Append(@, r)]
    ELSE LET t == homa_choose_interest(w, w.hsk.request_interests)
         IN  IF t # NoThread THEN ThreadWaiting(w, r, t)
             ELSE [w EXCEPT !.hsk.ready_requests = Append(@, r)]

\* --------------------------------------------------------- packet handlers
Commit(w) ==
    /\ msgin' = w.msgin
    /\ rpcs' = w.rpcs
    /\ homa' = w.homa
    /\ hsk' = w.hsk
    /\ interests' = w.interests

Goto(t, label) == pc' = [pc EXCEPT ![t] = label]

\* homa_rpc_lock / homa_rpc_unlock
RpcFree(r) == rpcs[r].lock = NoThread
\* A lookup that returns the RPC without locking it.
RpcLock_Skip(w, r, t) == w
RpcLock(w, r, t) == [w EXCEPT !.rpcs[r].lock = t]
RpcUnlock(w, r) == [w EXCEPT !.rpcs[r].lock = NoThread]

\* homa_data_pkt up to and including homa_add_packet (lines 539-575), for a
\* packet that carries the segment pkt. discard is "goto discard"; keep
\* tells whether homa_add_packet queued the packet.
DataPktAdd(w, r, pkt, delta) ==
    LET fresh == w.rpcs[r].state # "RPC_INCOMING" /\ homa_is_client(r)
        m0 == IF fresh /\ w.rpcs[r].state = "RPC_OUTGOING"
              THEN homa_message_in_init(wire[r].message_length, wire[r].incoming,
                                        wire[r].bpages)
              ELSE w.msgin[r]
        w0 == IF fresh /\ w.rpcs[r].state = "RPC_OUTGOING"
              THEN [w EXCEPT !.rpcs[r].state = "RPC_INCOMING", !.msgin[r] = m0]
              ELSE w
        delta0 == IF fresh /\ w.rpcs[r].state = "RPC_OUTGOING"
                  THEN delta + m0.granted ELSE delta
        res == homa_add_packet(m0, pkt)
    IN  IF fresh /\ w.rpcs[r].state # "RPC_OUTGOING"
        THEN [w |-> w, delta |-> delta, discard |-> TRUE, keep |-> FALSE, added |-> FALSE]
        ELSE IF ~fresh /\ w.rpcs[r].state # "RPC_INCOMING" /\ w.msgin[r].length >= 0
        THEN [w |-> w, delta |-> delta, discard |-> TRUE, keep |-> FALSE, added |-> FALSE]
        ELSE IF m0.num_bpages = 0
        THEN [w |-> w0, delta |-> delta0, discard |-> TRUE, keep |-> FALSE, added |-> FALSE]
        ELSE [w |-> [w0 EXCEPT !.msgin[r] = res.msgin],
              delta |-> delta0 - (m0.bytes_remaining - res.msgin.bytes_remaining),
              discard |-> FALSE, keep |-> res.keep, added |-> TRUE]

\* The packets a sender transmits for r: the message cut into segments of
\* GrantSeg bytes (the last one shorter).
Segments(r) ==
    {Pkt(k * GrantSeg, Min(GrantSeg, wire[r].message_length - k * GrantSeg)) :
        k \in 0..((wire[r].message_length - 1) \div GrantSeg)}

\* A sender transmits a segment only once it is within the unscheduled
\* bytes or has been granted; segments arrive in order, except that the
\* latest one may arrive again (a retransmission).
MaySend(r, pkt) ==
    /\ pkt.offset < Max(wire[r].incoming, msgin[r].granted)
    /\ pkt.offset <= msgin[r].recv_end
    /\ pkt.offset + pkt.length >= msgin[r].recv_end

\* The end of packet processing: the caller of homa_pkt_dispatch releases
\* the RPC lock (homa_lcache_release) and adds delta to total_incoming.
PktDone(w, r, delta) ==
    [RpcUnlock(w, r) EXCEPT !.homa.total_incoming = @ + delta]

\* homa_pkt_dispatch for a DATA packet of RPC r, which core c has found and
\* locked in the world w, through homa_data_pkt up to the test of line 577:
\* the packet is added to the message. Packet processing ends here when
\* the packet is discarded or the message needs neither handoff nor grants.
DataPktStart(c, w, r, pkt, delta) ==
    /\ LET d == DataPktAdd(w, r, pkt, delta)
           ready == /\ ~d.discard
                    /\ d.w.msgin[r].packets # <<>>
                    /\ "RPC_PKTS_READY" \notin d.w.rpcs[r].flags
           w1 == IF ready THEN [d.w EXCEPT !.rpcs[r].flags = @ \cup {"RPC_PKTS_READY"}]
                 ELSE d.w
           next == IF d.discard THEN "idle"
                   ELSE IF ready THEN "dp_handoff"
                   ELSE IF d.w.msgin[r].scheduled THEN "dp_grantable"
                   ELSE "idle"
       IN  /\ Commit(IF next = "idle" THEN PktDone(w1, r, d.delta) ELSE w1)
           /\ loc' = [loc EXCEPT ![c] = IF next = "idle" THEN NoLoc
                                        ELSE [NoLoc EXCEPT !.rpc = r, !.delta = d.delta]]
           /\ Goto(c, next)
           /\ cover' = IF d.keep THEN [cover EXCEPT ![r] = Covered(@, pkt)] ELSE cover
    /\ UNCHANGED <<wire, copied, marked, last, sent, races>>

\* A DATA packet of client RPC r arrives at core c, which holds no RPC lock.
PktDispatchData(c, r, pkt) ==
    /\ pc[c] = "idle"
    /\ homa_is_client(r)
    /\ rpcs[r].state \in {"RPC_OUTGOING", "RPC_INCOMING"}
    /\ RpcFree(r)
    /\ DataPktStart(c, RpcLock(World, r, c), r, pkt, 0)

\* homa_rpc_new_server is not part of this file; the model takes from
\* homa_pkt_dispatch (lines 394-409) and homa_data_pkt (lines 550-556) what
\* it does: it returns the server RPC with this id, locked, and creates it
\* if it does not exist, with msgin initialized from the DATA header.
homa_rpc_new_server(w, c, id) ==
    IF w.rpcs[id].state \in {"NONE", "RPC_DEAD"}
    THEN [w |-> [w EXCEPT !.rpcs[id] = [NewRpc("RPC_INCOMING") EXCEPT !.lock = c],
                          !.msgin[id] = homa_message_in_init(wire[id].message_length,
                                                             wire[id].incoming,
                                                             wire[id].bpages)],
          created |-> TRUE]
    ELSE [w |-> RpcLock(w, id, c), created |-> FALSE]

\* A DATA packet of a request arrives at core c, which holds no RPC lock
\* (homa_pkt_dispatch, lines 390-409): the server RPC is created if it does
\* not exist, and its granted bytes are added to delta.
PktDispatchRequest(c, r, pkt) ==
    /\ pc[c] = "idle"
    /\ ~homa_is_client(r)
    /\ rpcs[r].state \in {"NONE", "RPC_INCOMING"}
    /\ RpcFree(r)
    /\ LET new == homa_rpc_new_server(World, c, r) IN
       DataPktStart(c, new.w, r, pkt,
                    IF new.created THEN new.w.msgin[r].granted ELSE 0)

\* homa_data_pkt, lines 580-582: hand the RPC off under the socket lock.
DataPktHandoff(c) ==
    /\ pc[c] = "dp_handoff"
    /\ hsk.lock = NoThread
    /\ LET r == loc[c].rpc
           w1 == homa_rpc_handoff(World, r)
       IN  IF msgin[r].scheduled
           THEN Commit(w1) /\ Goto(c, "dp_grantable") /\ UNCHANGED loc
           ELSE /\ Commit(PktDone(w1, r, loc[c].delta))
                /\ Goto(c, "idle")
                /\ loc' = [loc EXCEPT ![c] = NoLoc]
    /\ UNCHANGED <<wire, ghostVars>>

\* homa_data_pkt, lines 585-590: homa_check_grantable for a scheduled
\* message; packet processing ends.
DataPktCheckGrantable(c) ==
    /\ pc[c] = "dp_grantable"
    /\ Commit(PktDone(homa_check_grantable(World, loc[c].rpc), loc[c].rpc, loc[c].delta))
    /\ Goto(c, "idle")
    /\ loc' = [loc EXCEPT ![c] = NoLoc]
    /\ UNCHANGED <<wire, ghostVars>>


\* ------------------------------------------------------------- send_grants
\* homa_send_grants, lines 991-1000: read total_incoming and decide whether
\* to go on. `ret` is where the thread continues once homa_send_grants
\* returns.
SendGrantsStart(c, from, ret) ==
    /\ pc[c] = from
    /\ LET available == homa.max_incoming - homa.total_incoming IN
       IF homa.grantable_rpcs = <<>> \/ available <= 0
       THEN /\ Goto(c, ret)
            /\ loc' = [loc EXCEPT ![c].available = 0, ![c].ret = "idle"]
       ELSE /\ Goto(c, "sg_locked")
            /\ loc' = [loc EXCEPT ![c].available = available, ![c].ret = ret]
    /\ UNCHANGED <<msgin, rpcs, homa, hsk, interests, wire, ghostVars>>

\* A core (softirq, after a batch of packets) calls homa_send_grants.
SendGrants(c) ==
    /\ homa.grantable_rpcs # <<>>
    /\ homa.max_incoming - homa.total_incoming > 0
    /\ SendGrantsStart(c, "idle", "idle")

\* homa_send_grants, lines 1003-1021: choose the RPCs and compute the
\* grants while holding the grantable lock.
SendGrantsCompute(c) ==
    /\ pc[c] = "sg_locked"
    /\ LET sg == SendGrantsLocked(World, loc[c].available) IN
       /\ Commit(sg.w)
       /\ loc' = [loc EXCEPT ![c].grants = sg.grants,
                             ![c].fifo_rpc = sg.fifo_rpc,
                             ![c].fifo_grant = sg.fifo_grant]
       /\ races' = races \cup
                      {[rpc |-> sg.fifo_rpc, low |-> loc[d].fifo_grant,
                        high |-> sg.fifo_grant] :
                          d \in {e \in Cores \ {c} :
                                    /\ sg.fifo_rpc # NULL
                                    /\ pc[e] = "sg_xmit"
                                    /\ loc[e].fifo_rpc = sg.fifo_rpc}}
       /\ Goto(c, "sg_xmit")
    /\ UNCHANGED <<wire, cover, marked, copied, last, sent>>

\* atomic_dec(&rpcs[i]->grants_in_progress) for every grant in grants.
RECURSIVE GrantsSent(_, _)
GrantsSent(rs, grants) ==
    IF grants = <<>> THEN rs
    ELSE GrantsSent([rs EXCEPT ![Head(grants).rpc].grants_in_progress = @ - 1],
                    Tail(grants))

\* The test of line 1040: a FIFO grant was chosen and msgin.granted of its
\* RPC still has the value that homa_send_grants read under the lock.
SendsFifoGrant_NoCheck(c) == loc[c].fifo_rpc # NULL

SendsFifoGrant(c) ==
    /\ loc[c].fifo_rpc # NULL
    /\ loc[c].fifo_grant = msgin[loc[c].fifo_rpc].granted

\* The grant_header of lines 1041-1044.
FifoGrantPkt_LowPriority(c) ==
    [type |-> "GRANT", id |-> loc[c].fifo_rpc, offset |-> loc[c].fifo_grant,
     priority |-> 0]

FifoGrantPkt(c) ==
    [type |-> "GRANT", id |-> loc[c].fifo_rpc, offset |-> loc[c].fifo_grant,
     priority |-> homa.max_sched_prio]

\* homa_send_grants, lines 1028-1051: send the accumulated GRANTs and the
\* FIFO grant, and return.
SendGrantsXmit(c) ==
    /\ pc[c] = "sg_xmit"
    /\ rpcs' = GrantsSent(rpcs, loc[c].grants)
    /\ sent' = IF SendsFifoGrant(c) THEN sent \cup {FifoGrantPkt(c)} ELSE sent
    /\ Goto(c, loc[c].ret)
    /\ loc' = [loc EXCEPT ![c].grants = <<>>, ![c].fifo_rpc = NULL,
                          ![c].fifo_grant = 0, ![c].available = 0,
                          ![c].ret = "idle"]
    /\ UNCHANGED <<msgin, homa, hsk, interests, wire, cover, marked, copied, last, races>>

\* ------------------------------------------------------------------- abort
\* homa_rpc_free is not part of this file; the model takes from its callers
\* and from homa_check_grantable what it does: the RPC becomes RPC_DEAD and
\* is unlinked from the ready list and from the interest registered on it.
homa_rpc_free(w, r) ==
    LET t == w.rpcs[r].interest
        w1 == [w EXCEPT !.rpcs[r].state = "RPC_DEAD",
                        !.rpcs[r].interest = NoThread,
                        !.hsk.ready_requests = Without(@, r),
                        !.hsk.ready_responses = Without(@, r)]
    IN  IF t # NoThread THEN [w1 EXCEPT !.interests[t].reg_rpc = NULL] ELSE w1

\* homa_abort_sock_rpcs for client RPC r (lines 1458-1472) up to the test
\* of line 1333 in homa_remove_from_grantable: the RPC is locked; with
\* error = 0 it is freed, otherwise homa_rpc_abort starts.
AbortStart(c, r, error) ==
    /\ pc[c] = "idle"
    /\ homa_is_client(r)
    /\ rpcs[r].state \in {"RPC_OUTGOING", "RPC_INCOMING"}
    /\ rpcs[r].error = 0
    /\ RpcFree(r)
    /\ hsk.lock = NoThread
    /\ Commit(IF error = 0 THEN homa_rpc_free(RpcLock(World, r, c), r)
              ELSE RpcLock(World, r, c))
    /\ loc' = [loc EXCEPT ![c] = [NoLoc EXCEPT !.rpc = r, !.error = error]]
    /\ Goto(c, IF OnGrantable(World, r) THEN "ab_remove"
               ELSE IF error = 0 THEN "ab_done" ELSE "ab_handoff")
    /\ UNCHANGED <<wire, ghostVars>>

\* homa_remove_from_grantable, lines 1335-1341: unlink the RPC under the
\* grantable lock; homa_send_grants follows if it was still linked.
AbortRemove(c) ==
    /\ pc[c] = "ab_remove"
    /\ LET r == loc[c].rpc
           next == IF loc[c].error = 0 THEN "ab_done" ELSE "ab_handoff"
       IN  IF OnGrantable(World, r)
           THEN /\ Commit(homa_remove_grantable_locked(World, r))
                /\ Goto(c, "ab_grants")
                /\ loc' = [loc EXCEPT ![c].ret = next]
           ELSE /\ Goto(c, next)
                /\ UNCHANGED <<msgin, rpcs, homa, hsk, interests, loc>>
    /\ UNCHANGED <<wire, ghostVars>>

\* homa_remove_from_grantable, line 1339: homa_send_grants.
AbortSendGrants(c) == SendGrantsStart(c, "ab_grants", loc[c].ret)

\* homa_rpc_abort, lines 1378-1382: record the error and hand the RPC off.
AbortHandoff(c) ==
    /\ pc[c] = "ab_handoff"
    /\ hsk.lock = NoThread
    /\ LET r == loc[c].rpc
           w1 == [World EXCEPT !.rpcs[r].error = loc[c].error]
       IN  Commit(IF ~hsk.shutdown THEN homa_rpc_handoff(w1, r) ELSE w1)
    /\ Goto(c, "ab_done")
    /\ UNCHANGED <<wire, loc, ghostVars>>

\* homa_abort_sock_rpcs, line 1473: homa_rpc_unlock.
AbortDone(c) ==
    /\ pc[c] = "ab_done"
    /\ Commit(RpcUnlock(World, loc[c].rpc))
    /\ Goto(c, "idle")
    /\ loc' = [loc EXCEPT ![c] = NoLoc]
    /\ UNCHANGED <<wire, ghostVars>>


\* -------------------------------------------------------------- grant spec
\* The grant specification: the responses of two client RPCs to the same
\* peer arrive on two cores, which also send grants; RPC 2 may be aborted
\* (homa_abort_rpcs for its server port) or freed.
GrantRpcs == {2, 4}
ESHUTDOWN == 108

GrantConfigs ==
    {[max_incoming |-> 3 * GrantSeg, window |-> win, max_overcommit |-> 2,
      max_rpcs_per_peer |-> per_peer, max_sched_prio |-> 2,
      unsched_bytes |-> GrantSeg, grant_fifo_fraction |-> 500,
      fifo_grant_increment |-> GrantSeg] :
        win \in {0, GrantSeg}, per_peer \in 1..2}

\* What the senders put on the wire: the message lengths, the unscheduled
\* bytes (incoming) and whether the receiver has buffer pages for RPC r.
Wire(bp) ==
    [r \in Rpcs |->
        [message_length |-> 2 * GrantSeg + GrantTail + (IF r = 6 THEN 1 ELSE 0),
         incoming |-> 2 * GrantSeg,
         bpages |-> bp[r]]]

InitGrant ==
    /\ InitCommon
    /\ \E cfg \in GrantConfigs : homa = homa_incoming_sysctl_changed(NewHoma(cfg))
    /\ msgin = [r \in Rpcs |-> NoMsg]
    /\ \E bp \in 0..1 : wire = Wire([r \in Rpcs |-> IF r = 4 THEN bp ELSE 1])

\* A DATA packet of one of the RPCs in S arrives at core c.
DataArrives(c, S) ==
    \E r \in S : \E pkt \in Segments(r) :
        MaySend(r, pkt) /\ PktDispatchData(c, r, pkt)

NextGrant ==
    \E c \in Cores :
        \/ DataArrives(c, GrantRpcs)
        \/ DataPktHandoff(c)
        \/ DataPktCheckGrantable(c)
        \/ SendGrants(c)
        \/ SendGrantsCompute(c)
        \/ SendGrantsXmit(c)
        \/ \E error \in {0, 0 - ESHUTDOWN} : c = "c2" /\ AbortStart(c, 2, error)
        \/ AbortRemove(c)
        \/ AbortSendGrants(c)
        \/ AbortHandoff(c)
        \/ AbortDone(c)

SpecGrant == InitGrant /\ [][NextGrant]_vars

\* The ranking specification: the responses of three client RPCs arrive on
\* two cores; no grants are sent, so that only the unscheduled bytes arrive.
RankRpcs == {2, 4, 6}

InitRank ==
    /\ InitCommon
    /\ homa = homa_incoming_sysctl_changed(NewHoma(CHOOSE cfg \in GrantConfigs :
                                                    cfg.window = 0 /\ cfg.max_rpcs_per_peer = 2))
    /\ msgin = [r \in Rpcs |-> NoMsg]
    /\ wire = Wire([r \in Rpcs |-> 1])

NextRank ==
    \E c \in Cores :
        \/ DataArrives(c, RankRpcs)
        \/ DataPktHandoff(c)
        \/ DataPktCheckGrantable(c)

SpecRank == InitRank /\ [][NextRank]_vars


\* The limit specification: two scheduled responses, each with one segment
\* of unscheduled bytes and two segments that need grants, arrive on two
\* cores that also send grants; max_incoming is less than two windows.
LimitConfigs ==
    {[max_incoming |-> 2 * GrantSeg - 1, window |-> GrantSeg, max_overcommit |-> 2,
      max_rpcs_per_peer |-> 2, max_sched_prio |-> 2,
      unsched_bytes |-> GrantSeg, grant_fifo_fraction |-> fraction,
      fifo_grant_increment |-> GrantSeg] :
        fraction \in {0, 500}}

InitLimit ==
    /\ InitCommon
    /\ \E cfg \in LimitConfigs : homa = homa_incoming_sysctl_changed(NewHoma(cfg))
    /\ msgin = [r \in Rpcs |-> NoMsg]
    /\ wire = [r \in Rpcs |-> [message_length |-> 3 * GrantSeg,
                               incoming |-> GrantSeg,
                               bpages |-> 1]]

NextLimit ==
    \E c \in Cores :
        \/ DataArrives(c, GrantRpcs)
        \/ DataPktHandoff(c)
        \/ DataPktCheckGrantable(c)
        \/ SendGrants(c)
        \/ SendGrantsCompute(c)
        \/ SendGrantsXmit(c)

SpecLimit == InitLimit /\ [][NextLimit]_vars


\* The choice specification: scheduled messages of four RPCs (2, 3 and 4
\* from one peer, 6 from another) are linked on the grantable list by
\* homa_check_grantable in any order, and one core sends grants.
ChooseRemaining == {5000, 7500, 10000}

ChooseConfigs ==
    {[max_incoming |-> 100000, window |-> 1000, max_overcommit |-> overcommit,
      max_rpcs_per_peer |-> per_peer, max_sched_prio |-> prio,
      unsched_bytes |-> 1000, grant_fifo_fraction |-> 0,
      fifo_grant_increment |-> 1000] :
        overcommit \in 2..4, per_peer \in 1..3, prio \in {2, 7}}

\* A scheduled message of 20000 bytes of which all but `remaining` bytes
\* have been granted and received.
ChooseMsg(remaining) ==
    [homa_message_in_init(20000, 1000, 1) EXCEPT
        !.bytes_remaining = remaining,
        !.recv_end = 20000 - remaining,
        !.granted = 20000 - remaining]

\* The state before the choice, for a configuration among `configs`.
InitChooseWith(configs) ==
    /\ \E cfg \in configs : homa = homa_incoming_sysctl_changed(NewHoma(cfg))
    /\ \E rem3 \in ChooseRemaining, rem6 \in ChooseRemaining :
          msgin = [r \in Rpcs |->
                     ChooseMsg(CASE r = 2 -> 10000 [] r = 4 -> 5000
                                 [] r = 3 -> rem3 [] OTHER -> rem6)]
    /\ rpcs = [r \in Rpcs |-> NewRpc("RPC_INCOMING")]
    /\ hsk = NewSock
    /\ interests = [t \in Receivers |-> homa_interest_init(FALSE)]
    /\ pc = [t \in Threads |-> "idle"]
    /\ loc = [t \in Threads |-> NoLoc]
    /\ wire = [r \in Rpcs |-> [message_length |-> 20000, incoming |-> 1000, bpages |-> 1]]
    /\ cover = [r \in Rpcs |-> [o \in 0..(MsgLen - 1) |-> 0]]
    /\ marked = [r \in Rpcs |-> NoPkt]
    /\ copied = [r \in Rpcs |-> {}]
    /\ last = NoCall
    /\ sent = {}
    /\ races = {}

InitChoose == InitChooseWith(ChooseConfigs)

\* homa_check_grantable(homa, rpc) for an RPC that is not yet on the list.
CheckGrantable(c, r) ==
    /\ pc[c] = "idle"
    /\ ~OnGrantable(World, r)
    /\ Commit(homa_check_grantable(World, r))
    /\ UNCHANGED <<wire, pc, loc, ghostVars>>

NextChoose ==
    \/ \E r \in Rpcs : CheckGrantable("c1", r)
    \/ SendGrants("c1")
    \/ SendGrantsCompute("c1")
    \/ SendGrantsXmit("c1")

SpecChoose == InitChoose /\ [][NextChoose]_vars

\* The overcommit specification: as the choice specification, with every
\* kind of max_overcommit (0, 1, a value within the list, a value above
\* MAX_GRANTS), a fixed or a computed window, and a max_incoming that is less
\* than the grants the chosen RPCs ask for or more.
CreateConfigs ==
    {[max_incoming |-> incoming, window |-> win, max_overcommit |-> overcommit,
      max_rpcs_per_peer |-> 2, max_sched_prio |-> 2,
      unsched_bytes |-> 1000, grant_fifo_fraction |-> 0,
      fifo_grant_increment |-> 1000] :
        incoming \in {2500, 100000}, win \in {0, 1000},
        overcommit \in {0, 1, 3, MAX_GRANTS + 1}}

InitCreate == InitChooseWith(CreateConfigs)

SpecCreate == InitCreate /\ [][NextChoose]_vars


\* The FIFO specification: the long response of RPC 4 and the shorter one
\* of RPC 2 arrive at core c1 while core c2 sends grants; max_overcommit is
\* 1, so that only the RPC at the head of the list gets scheduled grants.
FifoConfigs ==
    {[max_incoming |-> 10 * GrantSeg, window |-> GrantSeg, max_overcommit |-> 1,
      max_rpcs_per_peer |-> 2, max_sched_prio |-> 2,
      unsched_bytes |-> GrantSeg, grant_fifo_fraction |-> fraction,
      fifo_grant_increment |-> GrantSeg] :
        fraction \in {250, 500}}

InitFifo ==
    /\ InitCommon
    /\ \E cfg \in FifoConfigs : homa = homa_incoming_sysctl_changed(NewHoma(cfg))
    /\ msgin = [r \in Rpcs |-> NoMsg]
    /\ wire = [r \in Rpcs |-> [message_length |-> IF r = 4 THEN 5 * GrantSeg
                                                  ELSE 4 * GrantSeg,
                               incoming |-> GrantSeg,
                               bpages |-> 1]]

\* The next segment of r that has not been received yet arrives at core c.
NewData(c, r) ==
    \E pkt \in Segments(r) :
        /\ MaySend(r, pkt)
        /\ pkt.offset = msgin[r].recv_end
        /\ PktDispatchData(c, r, pkt)

NextFifo ==
    \/ \E r \in GrantRpcs : NewData("c1", r)
    \/ DataPktHandoff("c1")
    \/ DataPktCheckGrantable("c1")
    \/ SendGrants("c2")
    \/ SendGrantsCompute("c2")
    \/ SendGrantsXmit("c2")

\* The sender of RPC 2 transmits what it has been granted and the packets
\* are processed; a packet handler runs to its end; homa_send_grants is
\* called again and again and runs to its end. The step SendGrantsCompute
\* is enabled whenever core c2 holds the grantable lock, so that its weak
\* fairness is: the core does not stay at sg_locked forever.
FairFifo ==
    /\ WF_vars(NewData("c1", 2))
    /\ WF_vars(DataPktHandoff("c1") \/ DataPktCheckGrantable("c1"))
    /\ WF_vars(SendGrants("c2") \/ SendGrantsXmit("c2"))
    /\ []<>(pc["c2"] # "sg_locked")

SpecFifo == InitFifo /\ [][NextFifo]_vars

SpecFifoFair == SpecFifo /\ FairFifo

\* The pity grant specification: as the FIFO specification, with messages
\* of which one does not end at a multiple of fifo_grant_increment, and
\* with unsched_bytes 0 as well, so that an RPC with granted bytes on the
\* way does not qualify for a FIFO grant.
PityConfigs ==
    {[max_incoming |-> 10 * GrantSeg, window |-> GrantSeg, max_overcommit |-> 1,
      max_rpcs_per_peer |-> 2, max_sched_prio |-> 2,
      unsched_bytes |-> unsched, grant_fifo_fraction |-> 500,
      fifo_grant_increment |-> GrantSeg] :
        unsched \in {0, GrantSeg}}

InitPity ==
    /\ InitCommon
    /\ \E cfg \in PityConfigs : homa = homa_incoming_sysctl_changed(NewHoma(cfg))
    /\ msgin = [r \in Rpcs |-> NoMsg]
    /\ wire = [r \in Rpcs |-> [message_length |-> IF r = 4 THEN 3 * GrantSeg + GrantTail
                                                  ELSE 3 * GrantSeg,
                               incoming |-> GrantSeg,
                               bpages |-> 1]]

SpecPity == InitPity /\ [][NextFifo]_vars

\* The race specification: two scheduled responses arrive on two cores
\* that both send grants; max_incoming is large and unsched_bytes is three
\* segments, so that an RPC whose pity grant is still on the way qualifies
\* for another one.
RaceConfigs ==
    {[max_incoming |-> 20 * GrantSeg, window |-> GrantSeg, max_overcommit |-> 1,
      max_rpcs_per_peer |-> 2, max_sched_prio |-> 2,
      unsched_bytes |-> 3 * GrantSeg, grant_fifo_fraction |-> 500,
      fifo_grant_increment |-> GrantSeg]}

InitRace ==
    /\ InitCommon
    /\ \E cfg \in RaceConfigs : homa = homa_incoming_sysctl_changed(NewHoma(cfg))
    /\ msgin = [r \in Rpcs |-> NoMsg]
    /\ wire = [r \in Rpcs |-> [message_length |-> 4 * GrantSeg,
                               incoming |-> GrantSeg,
                               bpages |-> 1]]

SpecRace == InitRace /\ [][NextLimit]_vars


\* --------------------------------------------------------------- receivers
EINVAL == 22
EINTR == 4
EFAULT == 14
EAGAIN == 11
\* The most packets homa_copy_to_user detaches for one batch.
MAX_SKBS == 20

\* claim_rpc of homa_register_interests up to homa_sock_unlock
\* (lines 1568-1580): the RPC leaves the ready list and is being handed off.
ClaimRpc(w, r) ==
    [w EXCEPT !.hsk.ready_requests = Without(@, r),
              !.hsk.ready_responses = Without(@, r),
              !.rpcs[r].flags = @ \cup {"RPC_HANDING_OFF"}]

\* The end of claim_rpc (lines 1581-1587), with the RPC lock held by t.
ClaimLocked(w, t, r) ==
    [w EXCEPT !.rpcs[r].lock = t,
              !.rpcs[r].flags = @ \ {"RPC_HANDING_OFF"},
              !.interests[t].locked = TRUE,
              !.interests[t].ready_rpc = r]

\* homa_register_interests from "interest->locked = 0" on (lines 1535-1563).
\* pending is an RPC claimed from a ready list that t has yet to lock.
RegisterByCategory(w, t, flags) ==
    LET w1 == [w EXCEPT !.interests[t].locked = FALSE]
        w2 == IF "RESPONSE" \in flags
              THEN [w1 EXCEPT !.hsk.response_interests = <<t>> \o @] ELSE w1
    IN  IF "RESPONSE" \in flags /\ w1.hsk.ready_responses # <<>>
        THEN [w |-> ClaimRpc(w1, Head(w1.hsk.ready_responses)), error |-> 0,
              pending |-> Head(w1.hsk.ready_responses)]
        ELSE IF "REQUEST" \in flags /\ w2.hsk.ready_requests # <<>>
        THEN [w |-> ClaimRpc([w2 EXCEPT !.hsk.response_interests = Without(@, t)],
                             Head(w2.hsk.ready_requests)),
              error |-> 0, pending |-> Head(w2.hsk.ready_requests)]
        ELSE [w |-> IF "REQUEST" \in flags
                    THEN [w2 EXCEPT !.hsk.request_interests = <<t>> \o @] ELSE w2,
              error |-> 0, pending |-> NULL]

\* homa_find_client_rpc: the RPC is known to the socket.
FindClientRpc(w, id) ==
    id \in Rpcs /\ w.rpcs[id].state \in {"RPC_OUTGOING", "RPC_INCOMING"}

\* A test of hsk->shutdown that never sees the flag.
SockShutdown_Never(w) == FALSE

\* hsk->shutdown, read under the socket lock (line 1520).
SockShutdown(w) == w.hsk.shutdown

\* The registration on an RPC without the homa_rpc_unlock of line 1532.
RegisterById_KeepsLock(w, t, id) ==
    [RpcLock(w, id, t) EXCEPT !.rpcs[id].interest = t,
                              !.interests[t].reg_rpc = id]

\* A registration that sets rpc->interest and leaves interest->reg_rpc.
RegisterById_NoBackPointer(w, t, id) ==
    RpcUnlock([RpcLock(w, id, t) EXCEPT !.rpcs[id].interest = t], id)

\* homa_register_interests, lines 1530-1532: the interest is registered on
\* the RPC locked by homa_find_client_rpc, and the RPC is unlocked.
RegisterById(w, t, id) ==
    RpcUnlock([RpcLock(w, id, t) EXCEPT !.rpcs[id].interest = t,
                                        !.interests[t].reg_rpc = id], id)

\* homa_register_interests for thread t, run while the RPC `id` (if any) is
\* not locked by another thread.
homa_register_interests(w, t, flags, id) ==
    LET w0 == [w EXCEPT !.interests[t] =
                  [homa_interest_init(@.core_busy) EXCEPT !.locked = TRUE]]
    IN  IF id # 0 /\ (~homa_is_client(id) \/ ~FindClientRpc(w, id))
        THEN [w |-> w0, error |-> 0 - EINVAL, pending |-> NULL]
        ELSE IF id # 0 /\ w.rpcs[id].interest \notin {NoThread, t}
        THEN [w |-> w0, error |-> 0 - EINVAL, pending |-> NULL]
        ELSE IF SockShutdown(w)
        THEN [w |-> IF id # 0 THEN RpcUnlock(RpcLock(w0, id, t), id) ELSE w0,
              error |-> 0 - ESHUTDOWN, pending |-> NULL]
        ELSE IF id # 0 /\ ("RPC_PKTS_READY" \in w.rpcs[id].flags \/ w.rpcs[id].error # 0)
        THEN [w |-> ClaimLocked(ClaimRpc(w0, id), t, id), error |-> 0, pending |-> NULL]
        ELSE IF id # 0
        THEN RegisterByCategory(RegisterById(w0, t, id), t, flags)
        ELSE RegisterByCategory(w0, t, flags)

\* The top of the loop of homa_wait_for_message (lines 1619-1627).
Register(t, flags, id) ==
    /\ (id # 0 /\ homa_is_client(id) /\ FindClientRpc(World, id)) => RpcFree(id)
    /\ LET reg == homa_register_interests(World, t, flags, id) IN
       /\ Commit(reg.w)
       /\ loc' = [loc EXCEPT ![t] = [NoLoc EXCEPT !.flags = flags, !.id = id,
                                                  !.signal = loc[t].signal,
                                                  !.rpc = reg.pending,
                                                  !.result = IF reg.error # 0
                                                             THEN reg.error
                                                             ELSE loc[t].result]]
       /\ Goto(t, IF reg.pending # NULL THEN "reg_lock"
                  ELSE IF reg.error # 0 \/ reg.w.interests[t].ready_rpc # NULL
                  THEN "found"
                  ELSE IF "NONBLOCKING" \in flags THEN "reap"
                  ELSE "wait")
    /\ UNCHANGED <<wire, ghostVars>>

\* A receiver thread calls homa_wait_for_message(hsk, flags, id).
WaitForMessage(t, flags, id) == pc[t] = "idle" /\ Register(t, flags, id)

\* "No message and no error; try again" (line 1768).
WaitAgain(t) == pc[t] = "again" /\ Register(t, loc[t].flags, loc[t].id)

\* homa_register_interests, lines 1581-1587: lock the RPC claimed from a
\* ready list.
RegisterLock(t) ==
    /\ pc[t] = "reg_lock"
    /\ RpcFree(loc[t].rpc)
    /\ Commit(ClaimLocked(World, t, loc[t].rpc))
    /\ Goto(t, "found")
    /\ UNCHANGED <<wire, loc, ghostVars>>

\* The loop of lines 1639-1655 without the test of HOMA_RECVMSG_NONBLOCKING.
Reap_Blocking(t) ==
    /\ pc[t] = "reap"
    /\ Goto(t, IF interests[t].ready_rpc # NULL THEN "found" ELSE "wait")
    /\ UNCHANGED <<msgin, rpcs, homa, hsk, interests, wire, loc, ghostVars>>

\* The loop of lines 1639-1655 once homa_rpc_reap finds nothing to reap: an
\* RPC handed off in the meantime is taken; otherwise a nonblocking call
\* ends with -EAGAIN, and any other call goes on to poll and sleep.
Reap(t) ==
    /\ pc[t] = "reap"
    /\ IF interests[t].ready_rpc # NULL THEN Goto(t, "found") /\ UNCHANGED loc
       ELSE IF "NONBLOCKING" \in loc[t].flags
       THEN Goto(t, "found") /\ loc' = [loc EXCEPT ![t].result = 0 - EAGAIN]
       ELSE Goto(t, "wait") /\ UNCHANGED loc
    /\ UNCHANGED <<msgin, rpcs, homa, hsk, interests, wire, ghostVars>>

\* A signal becomes pending for a thread that is not asleep.
SignalArrives(t) ==
    /\ pc[t] \in {"reap", "reg_lock", "found", "found_rpc", "cu_copy", "cu_relock",
                  "cu_ret", "again"}
    /\ ~loc[t].signal
    /\ loc' = [loc EXCEPT ![t].signal = TRUE]
    /\ UNCHANGED <<msgin, rpcs, homa, hsk, interests, wire, pc, ghostVars>>

\* The thread polls or sleeps until an RPC is handed to it (lines 1633-1704).
Wake(t) ==
    /\ pc[t] = "wait"
    /\ interests[t].ready_rpc # NULL
    /\ Goto(t, "found")
    /\ UNCHANGED <<msgin, rpcs, homa, hsk, interests, wire, loc, ghostVars>>

\* A signal ends the sleep of line 1701.
Interrupt(t) ==
    /\ pc[t] = "wait"
    /\ interests[t].ready_rpc = NULL
    /\ ~loc[t].signal
    /\ loc' = [loc EXCEPT ![t].signal = TRUE]
    /\ Goto(t, "found")
    /\ UNCHANGED <<msgin, rpcs, homa, hsk, interests, wire, ghostVars>>

\* The teardown without "interest.reg_rpc->interest = NULL".
InterestsTornDown_KeepsReg(w, t) ==
    [w EXCEPT !.hsk.request_interests = Without(@, t),
              !.hsk.response_interests = Without(@, t)]

\* Lines 1721-1733: the interests of thread t are withdrawn.
InterestsTornDown(w, t) ==
    LET reg == w.interests[t].reg_rpc
        w1 == [w EXCEPT !.hsk.request_interests = Without(@, t),
                        !.hsk.response_interests = Without(@, t)]
    IN  IF reg # NULL THEN [w1 EXCEPT !.rpcs[reg].interest = NoThread] ELSE w1

\* found_rpc, lines 1708-1733: withdraw the interests under the socket lock.
FoundCleanup(t) ==
    /\ pc[t] = "found"
    /\ hsk.lock = NoThread
    /\ Commit(InterestsTornDown(World, t))
    /\ Goto(t, "found_rpc")
    /\ UNCHANGED <<wire, loc, ghostVars>>

\* The bytes of the packets skbs[1..k].
BytesOf(skbs, k) ==
    UNION {skbs[i].offset..(skbs[i].offset + skbs[i].length - 1) : i \in 1..k}

\* homa_wait_for_message returns `result` (an RPC, locked, or an errno).
Done(t, w, result) ==
    /\ Commit(w)
    /\ Goto(t, "done")
    /\ loc' = [loc EXCEPT ![t].result = result, ![t].skbs = <<>>]

\* The end of the loop of homa_wait_for_message (lines 1762-1768).
AfterLoop(t, w) ==
    IF loc[t].result < 0 THEN Done(t, w, loc[t].result)
    ELSE IF loc[t].signal THEN Done(t, w, 0 - EINTR)
    ELSE Commit(w) /\ Goto(t, "again") /\ UNCHANGED loc

\* The top of the loop of homa_copy_to_user (lines 216-232), entered with
\* the RPC lock held: detach a batch of packets, set RPC_COPYING_TO_USER and
\* release the lock; without packets, return.
CopyLoop(t, w, r) ==
    LET n == Min(Len(w.msgin[r].packets), MAX_SKBS) IN
    IF n = 0
    THEN /\ Commit(w)
         /\ Goto(t, "cu_ret")
         /\ loc' = [loc EXCEPT ![t].rpc = r, ![t].error = 0, ![t].skbs = <<>>]
    ELSE /\ Commit([RpcUnlock(w, r) EXCEPT
                      !.msgin[r].packets = SubSeq(@, n + 1, Len(@)),
                      !.rpcs[r].flags = @ \cup {"RPC_COPYING_TO_USER"}])
         /\ Goto(t, "cu_copy")
         /\ loc' = [loc EXCEPT ![t].rpc = r, ![t].error = 0,
                               ![t].skbs = SubSeq(w.msgin[r].packets, 1, n)]

\* homa_wait_for_message, lines 1739-1751: take the RPC handed to the
\* thread, lock it, and start homa_copy_to_user.
FoundRpc(t) ==
    /\ pc[t] = "found_rpc"
    /\ LET r == interests[t].ready_rpc IN
       IF r = NULL THEN AfterLoop(t, World)
       ELSE /\ interests[t].locked \/ RpcFree(r)
            /\ LET w1 == [World EXCEPT !.rpcs[r].lock = t,
                                       !.rpcs[r].flags = @ \ {"RPC_HANDING_OFF"}]
               IN  IF w1.rpcs[r].state = "RPC_DEAD"
                   THEN Commit(RpcUnlock(w1, r)) /\ Goto(t, "again") /\ UNCHANGED loc
                   ELSE IF w1.rpcs[r].error # 0 THEN Done(t, w1, r)
                   ELSE CopyLoop(t, w1, r)
    /\ UNCHANGED <<wire, ghostVars>>

\* homa_copy_to_user, lines 237-294: copy the batch to user memory, which
\* may fail at any packet, and free the packets of the batch.
CopyBatch(t) ==
    /\ pc[t] = "cu_copy"
    /\ \E k \in 0..Len(loc[t].skbs) :
          /\ copied' = [copied EXCEPT ![loc[t].rpc] = @ \cup BytesOf(loc[t].skbs, k)]
          /\ loc' = [loc EXCEPT ![t].skbs = <<>>,
                                ![t].error = IF k < Len(loc[t].skbs)
                                             THEN 0 - EFAULT ELSE 0]
    /\ Goto(t, "cu_relock")
    /\ UNCHANGED <<msgin, rpcs, homa, hsk, interests, wire, cover, marked, last, sent, races>>

\* homa_copy_to_user, lines 298-301: take the RPC lock again and clear
\* RPC_COPYING_TO_USER; return on error, else go for the next batch.
CopyRelock(t) ==
    /\ pc[t] = "cu_relock"
    /\ RpcFree(loc[t].rpc)
    /\ LET r == loc[t].rpc
           w1 == [RpcLock(World, r, t) EXCEPT
                     !.rpcs[r].flags = @ \ {"RPC_COPYING_TO_USER"}]
       IN  IF loc[t].error # 0
           THEN Commit(w1) /\ Goto(t, "cu_ret") /\ UNCHANGED loc
           ELSE CopyLoop(t, w1, r)
    /\ UNCHANGED <<wire, ghostVars>>

\* homa_wait_for_message, lines 1751-1758: homa_copy_to_user has returned.
CopyReturned(t) ==
    /\ pc[t] = "cu_ret"
    /\ LET r == loc[t].rpc
           w1 == [World EXCEPT !.rpcs[r].error = loc[t].error]
           w2 == [w1 EXCEPT !.rpcs[r].flags = @ \ {"RPC_PKTS_READY"}]
       IN  IF loc[t].error # 0 THEN Done(t, w1, r)
           ELSE IF w2.msgin[r].bytes_remaining = 0 /\ w2.msgin[r].packets = <<>>
           THEN Done(t, w2, r)
           ELSE AfterLoop(t, RpcUnlock(w2, r))
    /\ UNCHANGED <<wire, ghostVars>>

\* The caller of homa_wait_for_message releases the RPC it was given.
Return(t) ==
    /\ pc[t] = "done"
    /\ Commit(IF loc[t].result > 0 THEN RpcUnlock(World, loc[t].result) ELSE World)
    /\ Goto(t, "idle")
    /\ loc' = [loc EXCEPT ![t] = NoLoc]
    /\ UNCHANGED <<wire, ghostVars>>

\* ------------------------------------------------------------ receive spec
\* The receive specification: the response of client RPC 2, two segments
\* that need no grant, arrives while two threads receive by category and
\* by id.
RecvRpcs == {R1}

RecvInputs ==
    {[flags |-> {"RESPONSE"}, id |-> 0],
     [flags |-> {"REQUEST", "RESPONSE"}, id |-> 0],
     [flags |-> {}, id |-> R1]}

InitRecv ==
    /\ InitCommon
    /\ homa = homa_incoming_sysctl_changed(NewHoma(CHOOSE cfg \in GrantConfigs :
                                                    cfg.window = 0 /\ cfg.max_rpcs_per_peer = 2))
    /\ msgin = [r \in Rpcs |-> NoMsg]
    /\ wire = [r \in Rpcs |-> [message_length |-> GrantSeg + GrantTail,
                               incoming |-> GrantSeg + GrantTail,
                               bpages |-> 1]]

NextRecv ==
    \/ \E c \in Cores :
          \/ DataArrives(c, RecvRpcs)
          \/ DataPktHandoff(c)
    \/ \E t \in Receivers :
          \/ \E in \in RecvInputs : WaitForMessage(t, in.flags, in.id)
          \/ WaitAgain(t)
          \/ RegisterLock(t)
          \/ Wake(t)
          \/ Interrupt(t)
          \/ FoundCleanup(t)
          \/ FoundRpc(t)
          \/ CopyBatch(t)
          \/ CopyRelock(t)
          \/ CopyReturned(t)
          \/ Return(t)

SpecRecv == InitRecv /\ [][NextRecv]_vars

\* The handoff specification: the response of client RPC 2 and the request
\* of server RPC 3 arrive on two cores while two threads receive requests,
\* responses or both, or wait for RPC 2 by id; core c2 may abort RPC 2.
HandInputs ==
    {[flags |-> {"REQUEST"}, id |-> 0],
     [flags |-> {"RESPONSE"}, id |-> 0],
     [flags |-> {"REQUEST", "RESPONSE"}, id |-> 0],
     [flags |-> {"REQUEST"}, id |-> R1]}

\* A DATA packet of a request of one of the server RPCs in S arrives.
RequestArrives(c, S) ==
    \E r \in S : \E pkt \in Segments(r) :
        MaySend(r, pkt) /\ PktDispatchRequest(c, r, pkt)

NextHand ==
    \/ \E c \in Cores :
          \/ DataArrives(c, {R1})
          \/ RequestArrives(c, {3})
          \/ DataPktHandoff(c)
    \/ AbortStart("c2", R1, 0 - ESHUTDOWN)
    \/ AbortHandoff("c2")
    \/ AbortDone("c2")
    \/ \E t \in Receivers :
          \/ \E in \in HandInputs : WaitForMessage(t, in.flags, in.id)
          \/ RegisterLock(t)
          \/ Wake(t)
          \/ FoundCleanup(t)
          \/ FoundRpc(t)
          \/ CopyBatch(t)
          \/ CopyRelock(t)
          \/ CopyReturned(t)
          \/ Return(t)

\* Both messages have a single segment.
InitHand ==
    /\ InitCommon
    /\ homa = homa_incoming_sysctl_changed(NewHoma(CHOOSE cfg \in GrantConfigs :
                                                    cfg.window = 0 /\ cfg.max_rpcs_per_peer = 2))
    /\ msgin = [r \in Rpcs |-> NoMsg]
    /\ wire = [r \in Rpcs |-> [message_length |-> GrantSeg, incoming |-> GrantSeg,
                               bpages |-> 1]]

SpecHand == InitHand /\ [][NextHand]_vars

\* The interest specification: the receive specification, where the core of
\* each receiving thread has or has not been active within busy_cycles
\* (homa_cores[interest->core]->last_active >= get_cycles() - busy_cycles).
InitInterest ==
    /\ homa = homa_incoming_sysctl_changed(NewHoma(CHOOSE cfg \in GrantConfigs :
                                                    cfg.window = 0 /\ cfg.max_rpcs_per_peer = 2))
    /\ msgin = [r \in Rpcs |-> NoMsg]
    /\ rpcs = [r \in Rpcs |-> NewRpc(IF homa_is_client(r) THEN "RPC_OUTGOING" ELSE "NONE")]
    /\ hsk = NewSock
    /\ \E busy \in [Receivers -> BOOLEAN] :
          interests = [t \in Receivers |-> homa_interest_init(busy[t])]
    /\ pc = [t \in Threads |-> "idle"]
    /\ loc = [t \in Threads |-> NoLoc]
    /\ wire = [r \in Rpcs |-> [message_length |-> GrantSeg + GrantTail,
                               incoming |-> GrantSeg + GrantTail,
                               bpages |-> 1]]
    /\ cover = [r \in Rpcs |-> [o \in 0..(MsgLen - 1) |-> 0]]
    /\ marked = [r \in Rpcs |-> NoPkt]
    /\ copied = [r \in Rpcs |-> {}]
    /\ last = NoCall
    /\ sent = {}
    /\ races = {}

SpecInterest == InitInterest /\ [][NextRecv]_vars

\* The wait specification: the receive specification with nonblocking calls,
\* calls with the id of a server RPC, signals that arrive at any time, and a
\* socket that may have been shut down.
WaitInputs ==
    {[flags |-> {"RESPONSE"}, id |-> 0],
     [flags |-> {"RESPONSE", "NONBLOCKING"}, id |-> 0],
     [flags |-> {"NONBLOCKING"}, id |-> R1],
     [flags |-> {"NONBLOCKING"}, id |-> 3]}

InitWait ==
    /\ homa = homa_incoming_sysctl_changed(NewHoma(CHOOSE cfg \in GrantConfigs :
                                                    cfg.window = 0 /\ cfg.max_rpcs_per_peer = 2))
    /\ msgin = [r \in Rpcs |-> NoMsg]
    /\ rpcs = [r \in Rpcs |-> NewRpc(IF homa_is_client(r) THEN "RPC_OUTGOING" ELSE "NONE")]
    /\ \E shutdown \in BOOLEAN : hsk = [NewSock EXCEPT !.shutdown = shutdown]
    /\ interests = [t \in Receivers |-> homa_interest_init(FALSE)]
    /\ pc = [t \in Threads |-> "idle"]
    /\ loc = [t \in Threads |-> NoLoc]
    /\ wire = [r \in Rpcs |-> [message_length |-> GrantSeg + GrantTail,
                               incoming |-> GrantSeg + GrantTail,
                               bpages |-> 1]]
    /\ cover = [r \in Rpcs |-> [o \in 0..(MsgLen - 1) |-> 0]]
    /\ marked = [r \in Rpcs |-> NoPkt]
    /\ copied = [r \in Rpcs |-> {}]
    /\ last = NoCall
    /\ sent = {}
    /\ races = {}

\* One step of a thread inside homa_wait_for_message, or of its caller.
ThreadStep(t) ==
    \/ WaitAgain(t)
    \/ RegisterLock(t)
    \/ Reap(t)
    \/ FoundCleanup(t)
    \/ FoundRpc(t)
    \/ CopyBatch(t)
    \/ CopyRelock(t)
    \/ CopyReturned(t)
    \/ Return(t)

NextWait ==
    \/ \E c \in Cores :
          \/ DataArrives(c, RecvRpcs)
          \/ DataPktHandoff(c)
    \/ \E t \in Receivers :
          \/ \E in \in WaitInputs : WaitForMessage(t, in.flags, in.id)
          \/ ThreadStep(t)
          \/ Wake(t)
          \/ Interrupt(t)
          \/ SignalArrives(t)

\* A packet handler runs to its end; a thread that is not asleep goes on,
\* and gets a lock that is free again and again (the locks are spinlocks).
FairWait ==
    /\ \A c \in Cores : WF_vars(DataPktHandoff(c))
    /\ \A t \in Receivers : SF_vars(ThreadStep(t)) /\ WF_vars(Wake(t))

SpecWait == InitWait /\ [][NextWait]_vars

\* The nonblocking specification: thread t1 makes nonblocking calls, by
\* category and by id, and signals arrive for it at any time, while thread
\* t2 waits for a response and the packets of RPC 2 arrive.
NonblockingThreads == {"t1"}

NonblockInputs == {in \in WaitInputs : "NONBLOCKING" \in in.flags}

NextNonblock ==
    \/ \E c \in Cores :
          \/ DataArrives(c, RecvRpcs)
          \/ DataPktHandoff(c)
    \/ \E t \in NonblockingThreads :
          \/ \E in \in NonblockInputs : WaitForMessage(t, in.flags, in.id)
          \/ SignalArrives(t)
    \/ \E t \in Receivers \ NonblockingThreads :
          \/ WaitForMessage(t, {"RESPONSE"}, 0)
          \/ Wake(t)
          \/ Interrupt(t)
    \/ \E t \in Receivers : ThreadStep(t)

SpecNonblock == InitRecv /\ [][NextNonblock]_vars
SpecNonblockFair == SpecNonblock /\ FairWait

\* The consumption specification: the response of client RPC 2 and the
\* request of server RPC 3, of two segments each, arrive on core c1 while
\* thread t1 waits for requests, for responses (also without blocking), or
\* for RPC 2 by id together with requests.
ConsumeInputs ==
    {[flags |-> {"REQUEST"}, id |-> 0],
     [flags |-> {"RESPONSE"}, id |-> 0],
     [flags |-> {"RESPONSE", "NONBLOCKING"}, id |-> 0],
     [flags |-> {"REQUEST"}, id |-> R1]}

NextConsume ==
    \/ DataArrives("c1", {R1})
    \/ RequestArrives("c1", {3})
    \/ DataPktHandoff("c1")
    \/ \E in \in ConsumeInputs : WaitForMessage("t1", in.flags, in.id)
    \/ Wake("t1")
    \/ ThreadStep("t1")

SpecConsume == InitRecv /\ [][NextConsume]_vars
SpecConsumeFair == SpecConsume /\ FairWait

\* --------------------------------------------------------------- dispatch
\* The lock cache (struct homa_lcache) of the softirq batch running on core
\* c: loc[c].rpc is the RPC it holds locked, or NULL. Its functions are not
\* part of this file; they are modelled from their uses in
\* homa_pkt_dispatch and from the specification's account of the cache.
\* homa_lcache_release: unlock the cached RPC, if any.
homa_lcache_release(w, rpc) == IF rpc # NULL THEN RpcUnlock(w, rpc) ELSE w

\* homa_lcache_get: the cached RPC if it is the one the packet names.
homa_lcache_get(rpc, id) == IF rpc = id THEN rpc ELSE NULL

\* homa_find_client_rpc / homa_find_server_rpc: the RPC exists.
FindRpc(w, id) == id \in Rpcs /\ w.rpcs[id].state \in {"RPC_OUTGOING", "RPC_INCOMING"}

\* homa_rpc_acked (called at lines 380 and 868): the server RPC named by
\* the ack, if it still exists, is locked, freed and unlocked.
homa_rpc_acked(w, c, id) ==
    IF FindRpc(w, id) THEN RpcUnlock(homa_rpc_free(RpcLock(w, id, c), id), id) ELSE w

\* homa_data_pkt (lines 527-619) as one step, for a core that holds the
\* lock of r: the packet is added, the RPC is handed off under the socket
\* lock and re-ranked under the grantable lock.
DispatchData(w, r, pkt, delta) ==
    LET d == DataPktAdd(w, r, pkt, delta)
        ready == /\ ~d.discard
                 /\ d.w.msgin[r].packets # <<>>
                 /\ "RPC_PKTS_READY" \notin d.w.rpcs[r].flags
        w1 == IF ready
              THEN homa_rpc_handoff([d.w EXCEPT !.rpcs[r].flags = @ \cup {"RPC_PKTS_READY"}], r)
              ELSE d.w
        w2 == IF ~d.discard /\ w1.msgin[r].scheduled THEN homa_check_grantable(w1, r)
              ELSE w1
    IN  [w |-> w2, delta |-> d.delta]

\* The packet core c is working on.
CurPkt(c) == Head(loc[c].skbs)

\* A control packet handed to homa_xmit_control, __homa_xmit_control or
\* homa_xmit_unknown, or a retransmission by homa_resend_data.
Ctl(type, id, acks) == [type |-> type, id |-> id, acks |-> acks]

\* homa_xmit_data is not part of this file; the model takes from
\* homa_resend_pkt (line 690) what it does: it transmits the granted bytes
\* and advances msgout.next_xmit_offset.
homa_xmit_data(w, rpc) ==
    [w EXCEPT !.rpcs[rpc].msgout.next_xmit_offset = Max(@, w.rpcs[rpc].msgout.granted)]

\* homa_grant_pkt, lines 627-650.
homa_grant_pkt(w, rpc, h) ==
    IF w.rpcs[rpc].state = "RPC_OUTGOING"
    THEN LET out == w.rpcs[rpc].msgout
             granted == IF h.offset > out.granted THEN Min(h.offset, out.length)
                        ELSE out.granted
         IN  [w |-> homa_xmit_data([w EXCEPT !.rpcs[rpc].msgout.granted = granted,
                                             !.rpcs[rpc].msgout.sched_priority = h.priority],
                                   rpc),
              out |-> IF h.resend_all THEN {Ctl("DATA", rpc, <<>>)} ELSE {}]
    ELSE [w |-> w, out |-> {}]

\* homa_resend_pkt, lines 661-714.
homa_resend_pkt(w, rpc, h) ==
    IF rpc = NULL THEN [w |-> w, out |-> {Ctl("UNKNOWN", h.id, <<>>)}]
    ELSE IF ~homa_is_client(rpc) /\ w.rpcs[rpc].state # "RPC_OUTGOING"
    THEN [w |-> w, out |-> {Ctl("BUSY", rpc, <<>>)}]
    ELSE IF w.rpcs[rpc].msgout.next_xmit_offset < w.rpcs[rpc].msgout.granted
    THEN [w |-> w, out |-> {Ctl("BUSY", rpc, <<>>)}]
    ELSE [w |-> w,
          out |-> {Ctl("DATA", rpc, <<>>)}
                  \cup IF h.length = 0 THEN {Ctl("BUSY", rpc, <<>>)} ELSE {}]

\* homa_unknown_pkt, lines 722-764.
homa_unknown_pkt(w, rpc) ==
    IF homa_is_client(rpc)
    THEN [w |-> w,
          out |-> IF w.rpcs[rpc].state = "RPC_OUTGOING" THEN {Ctl("DATA", rpc, <<>>)}
                  ELSE {}]
    ELSE [w |-> homa_rpc_free(w, rpc), out |-> {}]

\* homa_cutoffs_pkt, lines 772-787; found tells whether homa_peer_find
\* returned the peer.
homa_cutoffs_pkt(w, h, found) ==
    [w |-> IF found
           THEN [w EXCEPT !.homa.peer.unsched_cutoffs = h.cutoffs,
                          !.homa.peer.cutoff_version = h.cutoff_version]
           ELSE w,
     out |-> {}]

\* A variant of the test of lines 812-813 that answers for every RPC.
NeedAckRefused_Never(w, rpc) == FALSE

\* homa_need_ack_pkt, lines 812-813: the RPC exists and its response has
\* not been received completely.
NeedAckRefused(w, rpc) ==
    /\ rpc # NULL
    /\ \/ w.rpcs[rpc].state # "RPC_INCOMING"
       \/ w.msgin[rpc].bytes_remaining # 0

\* homa_need_ack_pkt, lines 797-842; homa_peer_get_acks moves the ids
\* waiting in the peer into the ACK.
homa_need_ack_pkt(w, rpc, h, found) ==
    IF NeedAckRefused(w, rpc) \/ ~found THEN [w |-> w, out |-> {}]
    ELSE [w |-> [w EXCEPT !.homa.peer.acks = <<>>],
          out |-> {Ctl("ACK", h.id, w.homa.peer.acks)}]

\* A variant of NullRpcTypes that lets BUSY packets through as well.
NullRpcTypes_WithBusy == {"CUTOFFS", "NEED_ACK", "ACK", "RESEND", "BUSY"}

\* The packet types homa_pkt_dispatch handles without an RPC (lines
\* 420-421).
NullRpcTypes == {"CUTOFFS", "NEED_ACK", "ACK", "RESEND"}

\* The handler called last, the RPC it was given and the packets it
\* transmitted.
Called(handler, rpc, out) == [handler |-> handler, rpc |-> rpc, out |-> out]

\* homa_pkt_dispatch, lines 453-469, after homa_data_pkt has
\* returned d: when hsk->dead_skbs has reached twice the limit the lock
\* cache is released and homa_rpc_reap is called.
DataHandled(c, d, rpc, reap) ==
    /\ Commit(IF reap THEN homa_lcache_release(d.w, rpc) ELSE d.w)
    /\ loc' = [loc EXCEPT ![c].rpc = IF reap THEN NULL ELSE rpc,
                          ![c].delta = d.delta, ![c].skbs = <<>>]
    /\ Goto(c, IF reap THEN "pd_reap" ELSE "pd_next")
    /\ last' = Called("DATA", rpc, {})

\* The switch of homa_pkt_dispatch (lines 419-506) for the packet h of core
\* c with `rpc` found (and locked) or NULL; reap tells whether
\* hsk->dead_skbs has reached twice the limit (line 456), found whether
\* homa_peer_find returns the peer, and delta is the caller's delta.
DispatchHandle(c, w, rpc, h, reap, found, delta) ==
    IF rpc = NULL /\ h.type \notin NullRpcTypes
    THEN /\ Commit(w)
         /\ loc' = [loc EXCEPT ![c].rpc = NULL, ![c].delta = delta, ![c].skbs = <<>>]
         /\ Goto(c, "pd_next")
         /\ last' = Called("discard", NULL, {})
    ELSE IF h.type = "DATA"
    THEN DataHandled(c, DispatchData(w, rpc, h.seg, delta), rpc, reap)
    ELSE IF h.type = "ACK"
    THEN /\ Commit(IF rpc # NULL THEN homa_lcache_release(homa_rpc_free(w, rpc), rpc)
                   ELSE w)
         /\ loc' = [loc EXCEPT ![c].rpc = NULL, ![c].delta = delta,
                               ![c].skbs = IF h.acks = <<>> THEN <<>> ELSE @]
         /\ Goto(c, IF h.acks = <<>> THEN "pd_next" ELSE "pd_acks")
         /\ last' = Called("ACK", rpc, {})
    ELSE LET res == CASE h.type = "GRANT" -> homa_grant_pkt(w, rpc, h)
                      [] h.type = "RESEND" -> homa_resend_pkt(w, rpc, h)
                      [] h.type = "UNKNOWN" -> homa_unknown_pkt(w, rpc)
                      [] h.type = "CUTOFFS" -> homa_cutoffs_pkt(w, h, found)
                      [] h.type = "NEED_ACK" -> homa_need_ack_pkt(w, rpc, h, found)
                      [] OTHER -> [w |-> w, out |-> {}]
         IN  /\ Commit(res.w)
             /\ loc' = [loc EXCEPT ![c].rpc = rpc, ![c].delta = delta, ![c].skbs = <<>>]
             /\ Goto(c, "pd_next")
             /\ last' = Called(IF h.type \in {"GRANT", "RESEND", "UNKNOWN", "BUSY",
                                              "CUTOFFS", "NEED_ACK"}
                               THEN h.type ELSE "discard", rpc, res.out)

\* homa_pkt_dispatch, lines 373-383: a packet arrives in the batch of core
\* c; before a piggybacked ack is handled the lock cache is released.
DispatchStart(c, h) ==
    /\ pc[c] \in {"idle", "pd_next"}
    /\ IF h.type = "DATA" /\ h.ack # 0
       THEN /\ Commit(homa_lcache_release(World, loc[c].rpc))
            /\ loc' = [loc EXCEPT ![c].rpc = NULL, ![c].skbs = <<h>>]
            /\ Goto(c, "pd_ack")
       ELSE /\ loc' = [loc EXCEPT ![c].skbs = <<h>>]
            /\ Goto(c, "pd_lookup")
            /\ UNCHANGED <<msgin, rpcs, homa, hsk, interests>>
    /\ UNCHANGED <<wire, ghostVars>>

\* homa_pkt_dispatch, line 380: homa_rpc_acked for the piggybacked ack.
DispatchAck(c) ==
    /\ pc[c] = "pd_ack"
    /\ FindRpc(World, CurPkt(c).ack) => RpcFree(CurPkt(c).ack)
    /\ Commit(homa_rpc_acked(World, c, CurPkt(c).ack))
    /\ Goto(c, "pd_lookup")
    /\ UNCHANGED <<wire, loc, ghostVars>>

\* The lookup without the homa_lcache_release of line 388.
DispatchLookup_NoRelease(c) ==
    /\ pc[c] = "pd_lookup"
    /\ IF homa_lcache_get(loc[c].rpc, CurPkt(c).id) # NULL
       THEN \E reap, found \in BOOLEAN :
               DispatchHandle(c, World, loc[c].rpc, CurPkt(c), reap, found, loc[c].delta)
       ELSE /\ Goto(c, "pd_find")
            /\ UNCHANGED <<msgin, rpcs, homa, hsk, interests, loc, last>>
    /\ UNCHANGED <<wire, cover, marked, copied, sent, races>>

\* homa_pkt_dispatch, lines 385-388: on a hit of the lock cache the packet
\* is handled; on a miss the cache is released before the lookup.
DispatchLookup(c) ==
    /\ pc[c] = "pd_lookup"
    /\ IF homa_lcache_get(loc[c].rpc, CurPkt(c).id) # NULL
       THEN \E reap, found \in BOOLEAN :
               DispatchHandle(c, World, loc[c].rpc, CurPkt(c), reap, found, loc[c].delta)
       ELSE /\ Commit(homa_lcache_release(World, loc[c].rpc))
            /\ loc' = [loc EXCEPT ![c].rpc = NULL]
            /\ Goto(c, "pd_find")
            /\ UNCHANGED last
    /\ UNCHANGED <<wire, cover, marked, copied, sent, races>>

\* homa_pkt_dispatch, lines 389-506: the RPC is looked up and locked
\* (homa_lcache_save), or created for a DATA packet with a server-side id
\* unless homa_rpc_new_server fails, and the packet is handled.
DispatchFind(c) ==
    /\ pc[c] = "pd_find"
    /\ LET id == CurPkt(c).id IN
       IF ~homa_is_client(id) /\ CurPkt(c).type = "DATA"
       THEN \/ DispatchHandle(c, World, NULL, CurPkt(c), FALSE, FALSE, loc[c].delta)
            \/ /\ RpcFree(id)
               /\ LET new == homa_rpc_new_server(World, c, id) IN
                  \E reap \in BOOLEAN :
                     DispatchHandle(c, new.w, id, CurPkt(c), reap, FALSE,
                                    IF new.created
                                    THEN loc[c].delta + new.w.msgin[id].granted
                                    ELSE loc[c].delta)
       ELSE IF FindRpc(World, id)
       THEN /\ RpcFree(id)
            /\ \E reap, found \in BOOLEAN :
                  DispatchHandle(c, RpcLock(World, id, c), id, CurPkt(c), reap, found,
                                 loc[c].delta)
       ELSE \E found \in BOOLEAN :
               DispatchHandle(c, World, NULL, CurPkt(c), FALSE, found, loc[c].delta)
    /\ UNCHANGED <<wire, cover, marked, copied, sent, races>>

\* homa_ack_pkt, lines 866-868: homa_rpc_acked for the next ack of the
\* packet.
DispatchAcks(c) ==
    /\ pc[c] = "pd_acks"
    /\ LET id == Head(CurPkt(c).acks) IN
       /\ FindRpc(World, id) => RpcFree(id)
       /\ Commit(homa_rpc_acked(World, c, id))
       /\ IF Tail(CurPkt(c).acks) = <<>>
          THEN Goto(c, "pd_next") /\ loc' = [loc EXCEPT ![c].skbs = <<>>]
          ELSE /\ UNCHANGED pc
               /\ loc' = [loc EXCEPT ![c].skbs = <<[CurPkt(c) EXCEPT !.acks = Tail(@)]>>]
    /\ UNCHANGED <<wire, ghostVars>>

\* homa_pkt_dispatch, line 467: homa_rpc_reap, with nothing to reap.
DispatchReap(c) ==
    /\ pc[c] = "pd_reap"
    /\ Goto(c, "pd_next")
    /\ UNCHANGED <<msgin, rpcs, homa, hsk, interests, wire, loc, ghostVars>>

\* The end of the batch: the caller of homa_pkt_dispatch releases the lock
\* cache and adds delta to total_incoming.
BatchEnd(c) ==
    /\ pc[c] = "pd_next"
    /\ Commit([homa_lcache_release(World, loc[c].rpc) EXCEPT
                  !.homa.total_incoming = @ + loc[c].delta])
    /\ loc' = [loc EXCEPT ![c] = NoLoc]
    /\ Goto(c, "idle")
    /\ UNCHANGED <<wire, ghostVars>>

\* The server RPC whose response is acknowledged.
AckedRpc == 3

\* The packets of the dispatch specification: segments of the responses of
\* RPCs 2 and 4, with or without a piggybacked ack for RPC 3; BUSY packets
\* for RPC 3; ACK packets for RPC 3 with up to two more acks.
DispatchPkts ==
    {[type |-> "DATA", id |-> r, ack |-> a, acks |-> <<>>, seg |-> pkt] :
        r \in GrantRpcs, a \in {0, AckedRpc}, pkt \in {Pkt(0, GrantSeg)}}
    \cup {[type |-> "BUSY", id |-> AckedRpc, ack |-> 0, acks |-> <<>>, seg |-> NoPkt]}
    \cup {[type |-> "ACK", id |-> AckedRpc, ack |-> 0, acks |-> a, seg |-> NoPkt] :
             a \in {<<>>, <<AckedRpc>>, <<AckedRpc, AckedRpc>>}}

\* The dispatch specification: server RPC 3 has sent its response; batches
\* of packets arrive on two cores.
InitDispatch ==
    /\ rpcs = [r \in Rpcs |-> NewRpc("RPC_OUTGOING")]
    /\ hsk = NewSock
    /\ interests = [t \in Receivers |-> homa_interest_init(FALSE)]
    /\ pc = [t \in Threads |-> "idle"]
    /\ loc = [t \in Threads |-> NoLoc]
    /\ cover = [r \in Rpcs |-> [o \in 0..(MsgLen - 1) |-> 0]]
    /\ marked = [r \in Rpcs |-> NoPkt]
    /\ copied = [r \in Rpcs |-> {}]
    /\ last = NoCall
    /\ sent = {}
    /\ races = {}
    /\ \E cfg \in LimitConfigs : homa = homa_incoming_sysctl_changed(NewHoma(cfg))
    /\ msgin = [r \in Rpcs |-> NoMsg]
    /\ wire = [r \in Rpcs |-> [message_length |-> 3 * GrantSeg,
                               incoming |-> GrantSeg,
                               bpages |-> 1]]

NextDispatch ==
    \E c \in Cores :
        \/ \E h \in DispatchPkts : DispatchStart(c, h)
        \/ DispatchAck(c)
        \/ DispatchLookup(c)
        \/ DispatchFind(c)
        \/ DispatchAcks(c)
        \/ DispatchReap(c)
        \/ BatchEnd(c)

SpecDispatch == InitDispatch /\ [][NextDispatch]_vars

\* A packet header of the given type for RPC id.
Hdr(type, id) ==
    [type |-> type, id |-> id, ack |-> 0, acks |-> <<>>, seg |-> NoPkt,
     offset |-> 0, length |-> 0, priority |-> 0, resend_all |-> FALSE,
     cutoffs |-> 0, cutoff_version |-> 0]

\* The client RPC that does not exist.
UnknownRpc == 4

\* The packets of the packet-type specification: the two segments of the
\* response of RPC 2, the request of server RPC 3, and packets of every
\* type for RPC 2, RPC 3 and the unknown client RPC 4.
TypePkts ==
    {[Hdr("DATA", R1) EXCEPT !.seg = pkt] : pkt \in {Pkt(0, GrantSeg), Pkt(GrantSeg, GrantSeg)}}
    \cup {[Hdr("DATA", AckedRpc) EXCEPT !.seg = Pkt(0, GrantSeg)]}
    \cup {[Hdr("DATA", UnknownRpc) EXCEPT !.seg = Pkt(0, GrantSeg), !.ack = a] :
             a \in {0, AckedRpc}}
    \cup {[Hdr("GRANT", r) EXCEPT !.offset = 3 * GrantSeg, !.priority = 1,
                                  !.resend_all = (r = R1)] :
             r \in {R1, AckedRpc, UnknownRpc}}
    \cup {[Hdr("RESEND", r) EXCEPT !.length = n] :
             r \in {R1, AckedRpc, UnknownRpc}, n \in {0, GrantSeg}}
    \cup {Hdr(type, r) : type \in {"UNKNOWN", "BUSY", "NEED_ACK"},
                         r \in {R1, AckedRpc, UnknownRpc}}
    \cup {[Hdr("CUTOFFS", UnknownRpc) EXCEPT !.cutoffs = 1, !.cutoff_version = 1]}
    \cup {Hdr("ACK", AckedRpc)}

\* The packet-type specification: client RPC 2 has sent the first half of
\* its request, server RPC 3 and client RPC 4 do not exist, and the peer has
\* RPC 6 waiting to be acknowledged; packets of all types arrive in the
\* batches of core c1.
InitTypes ==
    /\ rpcs = [r \in Rpcs |->
                 IF r = R1
                 THEN [NewRpc("RPC_OUTGOING") EXCEPT
                          !.msgout = [length |-> 2 * GrantSeg, granted |-> GrantSeg,
                                      next_xmit_offset |-> GrantSeg,
                                      sched_priority |-> 0]]
                 ELSE NewRpc("NONE")]
    /\ hsk = NewSock
    /\ interests = [t \in Receivers |-> homa_interest_init(FALSE)]
    /\ pc = [t \in Threads |-> "idle"]
    /\ loc = [t \in Threads |-> NoLoc]
    /\ cover = [r \in Rpcs |-> [o \in 0..(MsgLen - 1) |-> 0]]
    /\ marked = [r \in Rpcs |-> NoPkt]
    /\ copied = [r \in Rpcs |-> {}]
    /\ last = Called("discard", NULL, {})
    /\ sent = {}
    /\ races = {}
    /\ \E cfg \in {k \in LimitConfigs : k.grant_fifo_fraction = 0} :
          homa = [homa_incoming_sysctl_changed(NewHoma(cfg)) EXCEPT !.peer.acks = <<6>>]
    /\ msgin = [r \in Rpcs |-> NoMsg]
    /\ wire = [r \in Rpcs |-> [message_length |-> IF r = R1 THEN 2 * GrantSeg ELSE GrantSeg,
                               incoming |-> 2 * GrantSeg,
                               bpages |-> 1]]

NextTypes ==
    \E c \in {"c1"} :
        \/ \E h \in TypePkts : DispatchStart(c, h)
        \/ DispatchAck(c)
        \/ DispatchLookup(c)
        \/ DispatchFind(c)
        \/ DispatchReap(c)
        \/ BatchEnd(c)

SpecTypes == InitTypes /\ [][NextTypes]_vars

\* The lock specification: the segments of the scheduled response of RPC 2
\* arrive on two cores, which also send grants; core c2 may abort
\* the RPC, and thread t1 receives by category, with and without an id.
NextLock ==
    \/ \E c \in Cores :
          \/ DataArrives(c, RecvRpcs)
          \/ DataPktHandoff(c)
          \/ DataPktCheckGrantable(c)
          \/ SendGrants(c)
          \/ SendGrantsCompute(c)
          \/ SendGrantsXmit(c)
    \/ AbortStart("c2", R1, 0 - ESHUTDOWN)
    \/ AbortRemove("c2")
    \/ AbortSendGrants("c2")
    \/ AbortHandoff("c2")
    \/ AbortDone("c2")
    \/ \E id \in {0, R1} : WaitForMessage("t1", {"REQUEST", "RESPONSE"}, id)
    \/ WaitAgain("t1")
    \/ RegisterLock("t1")
    \/ Wake("t1")
    \/ FoundCleanup("t1")
    \/ FoundRpc("t1")
    \/ CopyBatch("t1")
    \/ CopyRelock("t1")
    \/ CopyReturned("t1")
    \/ Return("t1")

SpecLock == InitLimit /\ [][NextLock]_vars

\* The handoff specification: the receive specification, where in addition
\* RPC 2 may be aborted or freed by homa_abort_sock_rpcs on core c2. The
\* message is unscheduled, so that the RPC is never on the grantable list.
NextHandoff ==
    \/ NextRecv
    \/ \E error \in {0, 0 - ESHUTDOWN} : AbortStart("c2", R1, error)
    \/ AbortHandoff("c2")
    \/ AbortDone("c2")

SpecHandoff == InitRecv /\ [][NextHandoff]_vars


\* ------------------------------------------------------ reassembly claims
Offsets == 0..(MsgLen - 1)

\* Number of gaps of the list that contain offset o.
GapCount(gaps, o) ==
    Cardinality({i \in 1..Len(gaps) : gaps[i].start <= o /\ o < gaps[i].end})

\* C1: after any sequence of homa_add_packet calls, bytes_remaining is the
\* message length minus the number of distinct offsets covered by accepted
\* packets, and no offset is covered by two accepted packets.
C1_BytesRemaining ==
    \A r \in Rpcs : msgin[r].length >= 0 =>
        /\ msgin[r].bytes_remaining
              = msgin[r].length - Cardinality({o \in Offsets : cover[r][o] >= 1})
        /\ \A o \in Offsets : cover[r][o] <= 1

\* C1 witness: a packet has just been discarded while the message is partly
\* received out of order (a gap exists and some bytes are still missing).
C1_Witness ==
    /\ last.called /\ ~last.keep
    /\ msgin[R1].gaps # <<>>
    /\ msgin[R1].bytes_remaining > 0
    /\ msgin[R1].bytes_remaining < msgin[R1].length

\* C2: every offset below recv_end is covered by exactly one accepted packet
\* or by exactly one gap, never both or neither; no accepted packet reaches
\* recv_end or beyond; recv_end never exceeds the message length.
C2_GapsAreTheMissingBytes ==
    \A r \in Rpcs : msgin[r].length >= 0 =>
        /\ msgin[r].recv_end <= msgin[r].length
        /\ \A o \in Offsets :
              IF o < msgin[r].recv_end
              THEN cover[r][o] + GapCount(msgin[r].gaps, o) = 1
              ELSE cover[r][o] = 0

\* C2 witness: a gap has been split, so that two gaps and received data
\* between them lie below recv_end.
C2_Witness ==
    /\ Len(msgin[R1].gaps) = 2
    /\ \E o \in Offsets : o < msgin[R1].recv_end /\ cover[R1][o] = 1
                          /\ msgin[R1].gaps[1].end <= o /\ o < msgin[R1].gaps[2].start

\* C3: the gap list is strictly ordered by start, its gaps are non-empty and
\* pairwise disjoint, and every gap ends at or below recv_end.
C3_GapListOrdered ==
    \A r \in Rpcs :
        LET gaps == msgin[r].gaps IN
        /\ \A i \in 1..Len(gaps) :
              gaps[i].start < gaps[i].end /\ gaps[i].end <= msgin[r].recv_end
        /\ \A i \in 1..(Len(gaps) - 1) : gaps[i].end <= gaps[i + 1].start

\* C3 witness: a gap has been trimmed at its start and another one exists
\* after it (the message was received in at least three pieces).
C3_Witness ==
    /\ Len(msgin[R1].gaps) = 2
    /\ msgin[R1].gaps[1].start > 0
    /\ cover[R1][msgin[R1].gaps[1].start - 1] = 1
    /\ last.called /\ last.keep

\* C4: re-delivering a packet that was accepted before changes neither
\* bytes_remaining nor recv_end nor the gap list.
C4_DuplicateChangesNothing ==
    \A r \in Rpcs :
        marked[r] # NoPkt =>
            LET after == homa_add_packet(msgin[r], marked[r]).msgin IN
            /\ after.bytes_remaining = msgin[r].bytes_remaining
            /\ after.recv_end = msgin[r].recv_end
            /\ after.gaps = msgin[r].gaps

\* C4 witness: an accepted packet of nonzero length has just been delivered
\* again, while gaps are open and other packets have been accepted since.
C4_Witness ==
    /\ last.called /\ last.dup
    /\ marked[R1].length > 0
    /\ msgin[R1].gaps # <<>>
    /\ Cardinality({o \in Offsets : cover[R1][o] = 1}) > marked[R1].length

\* ----------------------------------------------------------- grant claims
\* No packet handler, grant computation or abort is in progress.
Quiescent == \A c \in Cores : pc[c] = "idle"

\* Every integrated packet has had its homa_check_grantable call completed
\* (the grantable lock is free in every state: it is held within a step).
ChecksComplete == \A c \in Cores : pc[c] \notin {"dp_handoff", "dp_grantable"}

Listed(r) == OnGrantable(World, r)

\* rpc a may stand in front of rpc b on the grantable list.
RankedBefore(a, b) ==
    \/ msgin[a].bytes_remaining < msgin[b].bytes_remaining
    \/ /\ msgin[a].bytes_remaining = msgin[b].bytes_remaining
       /\ msgin[a].birth <= msgin[b].birth

\* C7: whenever every integrated packet has had its check_grantable call
\* completed, the grantable list is sorted by bytes_remaining ascending,
\* ties broken by older birth first. The code does not keep this: two
\* packets integrated on two cores before either RPC is re-ranked leave the
\* list unsorted after both calls have completed.
C7_SortedWhenChecksComplete ==
    ChecksComplete =>
        \A i, j \in 1..Len(homa.grantable_rpcs) :
            i < j => RankedBefore(homa.grantable_rpcs[i], homa.grantable_rpcs[j])

C9_ListedNotFullyGranted ==
    \A i \in 1..Len(homa.grantable_rpcs) :
        msgin[homa.grantable_rpcs[i]].granted < msgin[homa.grantable_rpcs[i]].length

\* A scheduled message has been granted in full and has left the list, on
\* which the other RPC still stands.
C9_Witness ==
    \E r \in GrantRpcs :
        /\ msgin[r].scheduled
        /\ msgin[r].granted = msgin[r].length
        /\ ~Listed(r)
        /\ homa.grantable_rpcs # <<>>

\* C10: 0 <= granted <= length for every inbound message with length >= 0.
C10_GrantedWithinLength ==
    \A r \in Rpcs :
        msgin[r].length >= 0 =>
            (0 <= msgin[r].granted /\ msgin[r].granted <= msgin[r].length)

\* A message without buffer pages has been initialized (granted 0) and a
\* scheduled message has been granted up to its length.
C10_Witness ==
    /\ msgin[4].length >= 0
    /\ msgin[4].num_bpages = 0
    /\ msgin[4].granted = 0
    /\ msgin[2].scheduled
    /\ msgin[2].granted = msgin[2].length

\* homa_send_grants returns on core c in this step: either after it has
\* sent its grants or at once, because nothing is available (line 997).
SendGrantsReturns(c) ==
    /\ pc[c] \in {"sg_xmit", "ab_grants"}
    /\ pc'[c] \notin {"sg_xmit", "ab_grants", "sg_locked"}

\* C11: whenever homa_send_grants returns, total_incoming <= max_incoming.
\* The code does not keep this: total_incoming is read before the grantable
\* lock is taken, so two cores grant the same available bytes, and a FIFO
\* grant is added without looking at the available bytes at all.
C11_WithinLimitOnReturn ==
    [][(\E c \in Cores : SendGrantsReturns(c))
          => homa'.total_incoming <= homa'.max_incoming]_vars


\* Number of RPCs of the peer of list[i] that stand before position i.
EarlierSamePeer(list, i) ==
    Cardinality({j \in 1..(i - 1) : Peer(list[j]) = Peer(list[i])})

\* C12: the RPCs homa_choose_rpcs_to_grant returns (at most max_rpcs) hold
\* no peer more than max_rpcs_per_peer times and stand in list order; an RPC
\* up to the last one returned (or anywhere, if fewer than max_rpcs are
\* returned) is left out only if max_rpcs_per_peer RPCs of its peer stand
\* before it on the list; and the computation of the grants leaves every
\* RPC that is not fully granted, skipped ones included, on the list.
C12_PerPeerLimit ==
    LET list == homa.grantable_rpcs
        max_rpcs == homa.max_overcommit
        chosen == homa_choose_rpcs_to_grant(homa, max_rpcs)
        at(k) == IndexOf(list, chosen[k])
        reached == IF Len(chosen) < max_rpcs \/ chosen = <<>> THEN Len(list)
                   ELSE at(Len(chosen))
    IN  /\ Len(chosen) <= max_rpcs
        /\ \A k \in 1..Len(chosen) : Contains(list, chosen[k])
        /\ \A k \in 1..(Len(chosen) - 1) : at(k) < at(k + 1)
        /\ \A k \in 1..Len(chosen) :
              Cardinality({j \in 1..Len(chosen) : Peer(chosen[j]) = Peer(chosen[k])})
                  <= homa.max_rpcs_per_peer
        /\ \A i \in 1..reached :
              (~Contains(chosen, list[i]))
                  => EarlierSamePeer(list, i) >= homa.max_rpcs_per_peer
        /\ \A c \in Cores : pc[c] = "sg_xmit" =>
              \A k \in 1..Len(loc[c].grants) :
                  LET r == loc[c].grants[k].rpc IN
                  Listed(r) \/ msgin[r].granted = msgin[r].length

\* The list of the example (three RPCs of one peer, then one of another,
\* max_rpcs_per_peer 2) has been granted to: the third RPC got no grant and
\* is still on the list, in front of the one of the other peer.
C12_Witness ==
    /\ pc["c1"] = "sg_xmit"
    /\ homa.max_rpcs_per_peer = 2
    /\ homa.grantable_rpcs = <<4, 3, 2, 6>>
    /\ [k \in 1..Len(loc["c1"].grants) |-> loc["c1"].grants[k].rpc] = <<4, 3, 6>>


\* The RPCs homa_send_grants chose on core c, recomputed after the grants:
\* in the choice specification no grant reaches the end of a message, so
\* the list is the one the choice was made from.
ChosenAt(c) == homa_choose_rpcs_to_grant(homa, homa.max_overcommit)

\* The grantable list is in SRPT order.
ListInOrder ==
    \A i, j \in 1..Len(homa.grantable_rpcs) :
        i < j => RankedBefore(homa.grantable_rpcs[i], homa.grantable_rpcs[j])

\* C13 as stated: the list is ordered by bytes_remaining and, with
\* n <= max_sched_prio chosen RPCs, the grant for the RPC of rank r carries
\* priority max_sched_prio - r (7, 6, 5 for three RPCs and max_sched_prio 7).
C13_PriorityIsMaxMinusRank ==
    /\ ListInOrder
    /\ \A c \in Cores : pc[c] = "sg_xmit" =>
          LET chosen == ChosenAt(c) IN
          Len(chosen) <= homa.max_sched_prio =>
              \A k \in 1..Len(loc[c].grants) :
                  loc[c].grants[k].priority
                      = homa.max_sched_prio - (IndexOf(chosen, loc[c].grants[k].rpc) - 1)

\* C13, amended: the list is ordered by bytes_remaining and, with n chosen
\* RPCs, the grant for the RPC of rank r carries priority n - 1 - r if
\* n <= max_sched_prio + 1 (the lowest levels are used: 2, 1, 0 for three
\* RPCs and max_sched_prio 7), and max_sched_prio - r, but at least 0,
\* otherwise.
C13_PriorityUsesLowestLevels ==
    /\ ListInOrder
    /\ \A c \in Cores : pc[c] = "sg_xmit" =>
          LET chosen == ChosenAt(c)
              n == Len(chosen)
          IN  \A k \in 1..Len(loc[c].grants) :
                  LET rank == IndexOf(chosen, loc[c].grants[k].rpc) - 1 IN
                  loc[c].grants[k].priority
                      = IF n <= homa.max_sched_prio + 1 THEN n - 1 - rank
                        ELSE Max(0, homa.max_sched_prio - rank)

\* The example: RPCs with 5000, 7500 and 10000 bytes remaining stand on the
\* list in this order, max_sched_prio is 7, and grants for all three have
\* been created, with priorities 2, 1 and 0.
C13_Witness ==
    /\ pc["c1"] = "sg_xmit"
    /\ homa.max_sched_prio = 7
    /\ homa.grantable_rpcs = <<4, 6, 2>>
    /\ [k \in 1..3 |-> msgin[homa.grantable_rpcs[k]].bytes_remaining]
          = <<5000, 7500, 10000>>
    /\ Len(loc["c1"].grants) = 3
    /\ [k \in 1..3 |-> loc["c1"].grants[k].rpc] = <<4, 6, 2>>
    /\ [k \in 1..3 |-> loc["c1"].grants[k].priority] = <<2, 1, 0>>


\* C14: between the release of the grantable lock and the emission of the
\* GRANTs, every recipient, the one of the FIFO grant included, has
\* grants_in_progress > 0; and when no homa_send_grants call is in progress
\* every RPC's grants_in_progress is zero. The code does not keep this for
\* the FIFO grant: homa_choose_fifo_grant does not count it in
\* grants_in_progress, and homa_send_grants uses fifo_rpc after the unlock.
C14_RecipientsPinned ==
    /\ \A c \in Cores : pc[c] = "sg_xmit" =>
          /\ \A k \in 1..Len(loc[c].grants) :
                rpcs[loc[c].grants[k].rpc].grants_in_progress > 0
          /\ loc[c].fifo_rpc # NULL =>
                rpcs[loc[c].fifo_rpc].grants_in_progress > 0
    /\ (\A c \in Cores : pc[c] \notin {"sg_locked", "sg_xmit"}) =>
          \A r \in Rpcs : rpcs[r].grants_in_progress = 0


\* RPC r is on the grantable list and not among the RPCs chosen for
\* scheduled grants, all of which have fewer bytes remaining; it has nothing
\* on the way (so that it cannot move up), and it is the oldest RPC whose
\* bytes on the way are at most unsched_bytes.
Starved(r) ==
    LET chosen == homa_choose_rpcs_to_grant(homa, homa.max_overcommit) IN
    /\ Listed(r)
    /\ ~Contains(chosen, r)
    /\ \A k \in 1..Len(chosen) :
          msgin[chosen[k]].bytes_remaining < msgin[r].bytes_remaining
    /\ msgin[r].granted = msgin[r].length - msgin[r].bytes_remaining
    /\ FifoOldest(World, 1, NULL) = r

\* homa_send_grants has chosen r for a FIFO grant and is about to send it.
FifoGrantTo(r) == \E c \in Cores : pc[c] = "sg_xmit" /\ loc[c].fifo_rpc = r

\* RPC 4 is starved behind RPC 2 and scheduled grants keep being issued:
\* RPC 2 has at least grant_nonfifo_left bytes of scheduled grants to come.
StarvedBehind ==
    /\ homa.grant_fifo_fraction > 0
    /\ Starved(4)
    /\ Listed(2)
    /\ msgin[2].length - msgin[2].granted >= homa.grant_nonfifo_left

\* C15: with grant_fifo_fraction > 0 and scheduled grants that keep being
\* issued to the RPCs chosen in SRPT order, an RPC that stays on the
\* grantable list without being chosen, and is the oldest RPC whose bytes on
\* the way are at most unsched_bytes, eventually gets a FIFO grant.
C15_FifoGrantReachesStarved == StarvedBehind ~> FifoGrantTo(4)

\* RPC 4 gets a FIFO grant that is not the first one of the run, while
\* RPC 2 stands in front of it and has got a scheduled grant in the same
\* call.
C15_Witness ==
    /\ FifoGrantTo(4)
    /\ homa.grantable_rpcs = <<2, 4>>
    /\ msgin[2].bytes_remaining < msgin[4].bytes_remaining
    /\ msgin[4].granted = msgin[4].length - msgin[4].bytes_remaining + GrantSeg
    /\ msgin[4].granted > 2 * GrantSeg
    /\ \E k \in 1..Len(loc["c2"].grants) : loc["c2"].grants[k].rpc = 2


\* --------------------------------------------------------- receive claims
\* Thread t holds a batch of packets of r that it has yet to copy.
HoldsBatch(t, r) == pc[t] = "cu_copy" /\ loc[t].rpc = r

\* C5: whenever homa_wait_for_message returns an RPC with no error, every
\* byte of [0, msgin.length) has been copied to the user buffers and no
\* thread still holds an uncopied batch of the RPC's packets. The code does
\* not keep this: a thread that waits by id claims an RPC whose packets
\* another thread is copying and returns it as complete.
C5_ReturnedMessageIsCopied ==
    \A t \in Receivers :
        (pc[t] = "done" /\ loc[t].result > 0) =>
            LET r == loc[t].result IN
            rpcs[r].error = 0 =>
                /\ \A o \in 0..(msgin[r].length - 1) : o \in copied[r]
                /\ \A u \in Receivers : ~HoldsBatch(u, r)

\* Thread t is inside homa_copy_to_user with the RPC lock dropped for a batch.
LockDropped(t, r) == pc[t] \in {"cu_copy", "cu_relock"} /\ loc[t].rpc = r

\* C6: in homa_copy_to_user the RPC lock is not held while a packet is
\* copied, RPC_COPYING_TO_USER is set exactly while the lock is dropped for
\* a batch, and on return the caller holds the RPC lock, the flag is clear
\* and every detached packet has been freed. The code does not keep the two
\* statements about the flag when two threads are in homa_copy_to_user for
\* the same RPC.
C6_CopyToUserContract ==
    /\ \A t \in Receivers :
          pc[t] = "cu_copy" => rpcs[loc[t].rpc].lock # t
    /\ \A r \in RecvRpcs :
          ("RPC_COPYING_TO_USER" \in rpcs[r].flags)
              <=> (\E t \in Receivers : LockDropped(t, r))
    /\ \A t \in Receivers :
          pc[t] = "cu_ret" =>
              /\ rpcs[loc[t].rpc].lock = t
              /\ "RPC_COPYING_TO_USER" \notin rpcs[loc[t].rpc].flags
              /\ loc[t].skbs = <<>>

\* ------------------------------------------------------- handoff claims
\* C16: in every reachable state, no RPC is both linked on a ready list of
\* the socket and flagged RPC_HANDING_OFF.
C16_ReadyOrHandingOff ==
    \A r \in Rpcs : ~(OnReady(World, r) /\ "RPC_HANDING_OFF" \in rpcs[r].flags)

\* A thread has claimed RPC 2 from the ready list and has yet to lock it,
\* while homa_rpc_abort is about to hand the RPC off again.
C16_Witness ==
    /\ \E t \in Receivers : pc[t] = "reg_lock" /\ loc[t].rpc = R1
    /\ "RPC_HANDING_OFF" \in rpcs[R1].flags
    /\ pc["c2"] = "ab_handoff" /\ loc["c2"].rpc = R1

\* The thread whose interest receives RPC r in this step.
HandedTo(t, r) == interests[t].ready_rpc # r /\ interests'[t].ready_rpc = r

\* homa_rpc_handoff runs for r on core c, with no thread waiting for r by id.
HandoffByCategory(c, r) ==
    /\ pc[c] = "dp_handoff" /\ pc'[c] # "dp_handoff" /\ loc[c].rpc = r
    /\ rpcs[r].interest = NoThread
    /\ "RPC_HANDING_OFF" \notin rpcs[r].flags
    /\ ~OnReady(World, r)

\* C17: the RPC is handed to the first thread of the interest list whose
\* core is not busy, to the first thread of the list if every core is
\* busy, and to no thread (it is queued) only if the list is empty.
C17_ChoosesIdleCore ==
    [][\A c \in Cores : HandoffByCategory(c, R1) =>
          LET list == hsk.response_interests
              busy(i) == interests[list[i]].core_busy
          IN  /\ (list = <<>>) = (\A t \in Receivers : ~HandedTo(t, R1))
              /\ (list = <<>>) = Contains(hsk'.ready_responses, R1)
              /\ \A t \in Receivers : HandedTo(t, R1) =>
                    \E i \in 1..Len(list) :
                        /\ list[i] = t
                        /\ \A j \in 1..(i - 1) : busy(j)
                        /\ busy(i) => (i = 1 /\ \A j \in 1..Len(list) : busy(j))
                        /\ \A u \in Receivers \ {t} : ~HandedTo(u, R1)]_vars

\* T1 is on a busy core and T2 on an idle one, both were on the interest
\* list, and the RPC has been handed to T2.
C17_Witness ==
    /\ interests["t1"].core_busy /\ ~interests["t2"].core_busy
    /\ interests["t2"].ready_rpc = R1
    /\ pc["t2"] = "wait"
    /\ hsk.response_interests = <<"t1">>
    /\ rpcs[R1].interest = NoThread /\ loc["t2"].id = 0

\* ---------------------------------------------------------- wait claims
\* homa_register_interests (to its end, the lock of a claimed RPC included)
\* followed at once by the teardown of lines 1721-1733.
RegisterCancel(w, t, flags, id) ==
    LET reg == homa_register_interests(w, t, flags, id)
    IN  InterestsTornDown(IF reg.pending # NULL
                          THEN ClaimLocked(reg.w, t, reg.pending) ELSE reg.w, t)

\* The RPC lock that homa_register_interests takes is free.
CanRegister(w, t, flags, id) ==
    LET pending == homa_register_interests(w, t, flags, id).pending IN
    /\ pc[t] = "idle"
    /\ (id # 0 /\ homa_is_client(id) /\ FindClientRpc(w, id)) => w.rpcs[id].lock = NoThread
    /\ pending # NULL => w.rpcs[pending].lock = NoThread

\* Interest lists, ready queues, and the interest pointer and flags of
\* every RPC other than those in `but` are the same in w and v.
SameSockAndRpcs(w, v, but) ==
    /\ v.hsk.request_interests = w.hsk.request_interests
    /\ v.hsk.response_interests = w.hsk.response_interests
    /\ v.hsk.ready_requests = SelectSeq(w.hsk.ready_requests, LAMBDA r : r \notin but)
    /\ v.hsk.ready_responses = SelectSeq(w.hsk.ready_responses, LAMBDA r : r \notin but)
    /\ \A r \in Rpcs : v.rpcs[r].interest = w.rpcs[r].interest
    /\ \A r \in Rpcs \ but : v.rpcs[r].flags = w.rpcs[r].flags

\* C18 as stated: for every socket state, registering and tearing down at
\* once leaves interest lists, ready queues, interest pointers and flags as
\* they were.
C18_RegisterCancelNeutral ==
    \A t \in Receivers : \A in \in WaitInputs :
        CanRegister(World, t, in.flags, in.id) =>
            SameSockAndRpcs(World, RegisterCancel(World, t, in.flags, in.id), {})

\* C18: registering and tearing down at once leaves interest lists, ready
\* queues, interest pointers and flags as they were when no RPC is claimed;
\* an RPC that is claimed (the first of a ready queue, or the RPC `id` with
\* packets ready or an error) has left its ready queue, is locked by the
\* caller and has RPC_HANDING_OFF clear, and nothing else has changed.
C18_NeutralUnlessClaimed ==
    \A t \in Receivers : \A in \in WaitInputs :
        CanRegister(World, t, in.flags, in.id) =>
            LET v == RegisterCancel(World, t, in.flags, in.id)
                r == v.interests[t].ready_rpc
                byId == /\ in.id # 0 /\ homa_is_client(in.id) /\ FindClientRpc(World, in.id)
                        /\ rpcs[in.id].interest \in {NoThread, t}
                        /\ ~hsk.shutdown
                        /\ ("RPC_PKTS_READY" \in rpcs[in.id].flags \/ rpcs[in.id].error # 0)
                byList == /\ in.id = 0 /\ ~hsk.shutdown
                          /\ "RESPONSE" \in in.flags /\ hsk.ready_responses # <<>>
            IN  /\ (r # NULL) = (byId \/ byList)
                /\ r = NULL => SameSockAndRpcs(World, v, {})
                /\ r # NULL =>
                      /\ r = IF byId THEN in.id ELSE Head(hsk.ready_responses)
                      /\ SameSockAndRpcs(World, v, {r})
                      /\ v.rpcs[r].flags = rpcs[r].flags \ {"RPC_HANDING_OFF"}
                      /\ v.rpcs[r].lock = t

\* A nonblocking call by id has registered and torn down its interest
\* without an RPC, and another one has claimed the RPC from the ready queue.
C18_Witness ==
    /\ pc["t1"] = "found_rpc" /\ loc["t1"].id = R1 /\ loc["t1"].result = 0 - EAGAIN
    /\ interests["t1"].ready_rpc = NULL /\ rpcs[R1].interest = NoThread
    /\ pc["t2"] = "found_rpc" /\ loc["t2"].id = 0 /\ interests["t2"].ready_rpc = R1
    /\ interests["t2"].locked /\ hsk.ready_responses = <<>>

\* Thread t is inside a call homa_wait_for_message(hsk, flags, id) with
\* HOMA_RECVMSG_NONBLOCKING in flags.
Nonblocking(t) == pc[t] # "idle" /\ "NONBLOCKING" \in loc[t].flags

\* The call of thread t has returned RPC r with a complete message or an error.
ReturnedRpc(t, r) ==
    /\ loc[t].result = r
    /\ rpcs[r].error # 0 \/ (msgin[r].bytes_remaining = 0 /\ msgin[r].packets = <<>>)

\* A nonblocking call is not at the poll or sleep step, and has returned
\* one of `errors` or an RPC that is complete or has an error.
NonblockingCall(errors) ==
    \A t \in NonblockingThreads :
        /\ Nonblocking(t) => pc[t] # "wait"
        /\ (Nonblocking(t) /\ pc[t] = "done") =>
              \/ 0 - loc[t].result \in errors
              \/ \E r \in Rpcs : ReturnedRpc(t, r)

\* Every nonblocking call returns.
NonblockingReturns == \A t \in NonblockingThreads : Nonblocking(t) ~> (pc[t] = "done")

Registers(t) == pc[t] \in {"idle", "again"} /\ pc'[t] \notin {"idle", "again"}

\* On a socket that is shut down, homa_register_interests returns one of
\* `errors` and leaves the socket and every RPC (interest pointer, flags,
\* ready links, lock) as they were, with nothing in the interest.
RegistersNothing(t, errors) ==
    (hsk.shutdown /\ Registers(t)) =>
        /\ 0 - loc'[t].result \in errors
        /\ hsk' = hsk /\ rpcs' = rpcs
        /\ interests'[t].reg_rpc = NULL /\ interests'[t].ready_rpc = NULL

\* On a socket that is shut down, no thread polls or sleeps, and
\* homa_wait_for_message returns one of `errors`.
ReturnsWithoutSleep(errors) ==
    hsk.shutdown =>
        \A t \in Receivers :
            /\ pc[t] \notin {"reap", "wait"}
            /\ pc[t] = "done" => 0 - loc[t].result \in errors

\* C20 as stated: on a socket whose shutdown flag is set,
\* homa_register_interests returns -ESHUTDOWN, registers nothing, unlinks
\* and flags no RPC and holds no lock; homa_wait_for_message then returns
\* -ESHUTDOWN without sleeping.
C20_ShutdownRegistersNothing ==
    /\ [][\A t \in Receivers : RegistersNothing(t, {ESHUTDOWN})]_vars
    /\ []ReturnsWithoutSleep({ESHUTDOWN})

\* C20: as stated, except that a non-zero id that is not the id of a client
\* RPC of the socket makes both functions return -EINVAL.
C20_ShutdownOrInvalidId ==
    /\ [][\A t \in Receivers : RegistersNothing(t, {ESHUTDOWN, EINVAL})]_vars
    /\ []ReturnsWithoutSleep({ESHUTDOWN, EINVAL})
    /\ [](\A t \in Receivers : (hsk.shutdown /\ pc[t] = "done") =>
              (loc[t].result = 0 - EINVAL) =
                  (loc[t].id # 0 /\ ~(homa_is_client(loc[t].id) /\ FindClientRpc(World, loc[t].id))))

\* The socket is shut down with RPC 2 on the ready list, and a call for
\* RPC 2 by id has returned -ESHUTDOWN.
C20_Witness ==
    /\ hsk.shutdown /\ hsk.ready_responses = <<R1>>
    /\ pc["t1"] = "done" /\ loc["t1"].id = R1 /\ loc["t1"].result = 0 - ESHUTDOWN
    /\ rpcs[R1].lock = NoThread /\ "RPC_PKTS_READY" \in rpcs[R1].flags

\* ----------------------------------------------------------- abort claims
\* C21: once homa_rpc_abort has set an error on a live client RPC, an
\* error stays set as long as the RPC lives, under every interleaving, also
\* when the abort happens while a receiver is inside homa_copy_to_user with
\* the RPC lock dropped.
C21_AbortErrorStays ==
    [][\A r \in Rpcs :
          (rpcs[r].error = 0 - ESHUTDOWN /\ rpcs'[r].state # "RPC_DEAD") =>
              rpcs'[r].error # 0]_vars

\* ------------------------------------------------------------ lock claims
\* Thread t holds the lock of some RPC.
HoldsRpc(t) == \E r \in Rpcs : rpcs[r].lock = t

\* Thread t takes a step that acquires the socket lock: homa_data_pkt
\* (line 580), homa_rpc_abort (line 1379), the teardown of found_rpc
\* (line 1725) when there is something to tear down.
SockStep(t) ==
    /\ pc'[t] # pc[t]
    /\ \/ pc[t] \in {"dp_handoff", "ab_handoff"}
       \/ /\ pc[t] = "found"
          /\ \/ interests[t].reg_rpc # NULL
             \/ \E i \in 1..Len(hsk.request_interests) : hsk.request_interests[i] = t
             \/ \E i \in 1..Len(hsk.response_interests) : hsk.response_interests[i] = t

\* Thread t takes a step that acquires the grantable lock:
\* homa_check_grantable (line 895), homa_remove_from_grantable (line 1335),
\* homa_send_grants (line 1003).
GrantStep(t) ==
    /\ pc'[t] # pc[t]
    /\ pc[t] \in {"dp_grantable", "ab_remove", "sg_locked"}

\* Thread t acquires the lock of an RPC.
RpcLockStep(t) == \E r \in Rpcs : rpcs[r].lock # t /\ rpcs'[r].lock = t

C24_AtMostOneRpcLock ==
    \A c \in Cores :
        /\ \A r \in Rpcs : rpcs[r].lock = c => loc[c].rpc = r
        /\ pc[c] \in {"pd_ack", "pd_find", "pd_acks", "pd_reap"} => ~HoldsRpc(c)

\* Core c1 holds RPC 2 in its lock cache and has a packet for RPC 4 whose
\* lookup is about to miss; core c2 has released its cache and is about to
\* process the acks of an ACK packet.
C24_Witness ==
    /\ pc["c1"] = "pd_lookup" /\ rpcs[R1].lock = "c1" /\ CurPkt("c1").id = 4
    /\ pc["c2"] = "pd_acks" /\ rpcs[AckedRpc].state = "RPC_DEAD"

\* ------------------------------------------------------ reassembly claims
\* The byte offsets a packet carries.
PktBytes(pkt) == pkt.offset..(pkt.offset + pkt.length - 1)

\* Offset o of message m has been received: it is below recv_end and in no
\* gap.
Received(m, o) == o < m.recv_end /\ GapCount(m.gaps, o) = 0

\* Gap number i of m holds offset o.
InGap(m, i, o) == m.gaps[i].start <= o /\ o < m.gaps[i].end

\* The packet extends past the end of the message, carries a byte that was
\* received already, or overlaps a gap without lying inside it.
MustDiscard(m, pkt) ==
    \/ pkt.offset + pkt.length > m.length
    \/ \E o \in PktBytes(pkt) : Received(m, o)
    \/ \E i \in 1..Len(m.gaps) :
          /\ \E o \in PktBytes(pkt) : InGap(m, i, o)
          /\ \E o \in PktBytes(pkt) : ~InGap(m, i, o)

\* C25: in every state of a message, homa_add_packet discards each packet
\* that extends past msgin.length, lies wholly or partly in received data,
\* or overlaps a gap without lying inside that gap, and leaves recv_end,
\* the gap list, bytes_remaining and the packet queue as they were.
C25_BadPacketDiscarded ==
    \A pkt \in ReasmPkts :
        MustDiscard(msgin[R1], pkt) =>
            homa_add_packet(msgin[R1], pkt) = [keep |-> FALSE, msgin |-> msgin[R1]]

\* A packet has just been discarded while the message has a gap, and
\* packets of each kind exist: one past the end of the message, one inside
\* received data, one that spans a gap and received data.
C25_Witness ==
    LET m == msgin[R1] IN
    /\ last.called /\ ~last.keep
    /\ m.gaps # <<>>
    /\ \E pkt \in ReasmPkts :
          pkt.offset < m.length /\ pkt.offset + pkt.length > m.length
    /\ \E pkt \in ReasmPkts :
          /\ pkt.length > 0 /\ pkt.offset + pkt.length <= m.length
          /\ \A o \in PktBytes(pkt) : Received(m, o)
    /\ \E pkt \in ReasmPkts : \E i \in 1..Len(m.gaps) :
          /\ pkt.offset + pkt.length <= m.length
          /\ \E o \in PktBytes(pkt) : InGap(m, i, o)
          /\ \E o \in PktBytes(pkt) : Received(m, o)

\* C26: a DATA packet whose segment length is zero is discarded by
\* homa_add_packet at every offset and in every state of the message: the
\* call leaves the message, its packet queue included, as it was.
C26_ZeroLengthDiscarded ==
    [][\A pkt \in ReasmPkts :
          (pkt.length = 0 /\ AddPacket(R1, pkt)) => UNCHANGED msgin]_vars

\* ------------------------------------------------------- re-ranking claims
\* `list` with the element at position i moved up to position j <= i.
MovedUp(list, i, j) ==
    [k \in 1..Len(list) |->
        IF k < j \/ k > i THEN list[k]
        ELSE IF k = j THEN list[i]
        ELSE list[k - 1]]

\* Core c completes homa_check_grantable for an RPC that is on the
\* grantable list and still needs grants.
ReRanks(c) ==
    /\ pc[c] = "dp_grantable" /\ pc'[c] # "dp_grantable"
    /\ Listed(loc[c].rpc)
    /\ rpcs[loc[c].rpc].state # "RPC_DEAD"
    /\ msgin[loc[c].rpc].granted < msgin[loc[c].rpc].length

\* The re-ranking of r moves it in front of exactly the predecessors that
\* satisfy Swaps, up to the first one that does not.
ReRankedBy(Swaps(_, _), r) ==
    LET list == homa.grantable_rpcs
        i == IndexOf(list, r)
    IN  \E j \in 1..i :
           /\ homa'.grantable_rpcs = MovedUp(list, i, j)
           /\ \A k \in j..(i - 1) : Swaps(list[k], r)
           /\ j > 1 => ~Swaps(list[j - 1], r)

\* The predecessor has more bytes_remaining, or as many and an older birth.
MoreOrOlder(pred, r) ==
    \/ msgin[pred].bytes_remaining > msgin[r].bytes_remaining
    \/ /\ msgin[pred].bytes_remaining = msgin[r].bytes_remaining
       /\ msgin[pred].birth < msgin[r].birth

\* The predecessor has more bytes_remaining, or as many and a later birth.
MoreOrYounger(pred, r) ==
    \/ msgin[pred].bytes_remaining > msgin[r].bytes_remaining
    \/ /\ msgin[pred].bytes_remaining = msgin[r].bytes_remaining
       /\ msgin[pred].birth > msgin[r].birth

\* C27 as stated: homa_check_grantable for an RPC on the list swaps it with
\* its predecessor while the predecessor has strictly more bytes_remaining,
\* or equal bytes_remaining and a strictly older birth, and stops at the
\* first predecessor for which neither holds.
C27_SwapsPastOlder ==
    [][\A c \in Cores : ReRanks(c) => ReRankedBy(MoreOrOlder, loc[c].rpc)]_vars

\* C27, amended: the swap goes on while the predecessor has strictly more
\* bytes_remaining, or equal bytes_remaining and a strictly later birth (the
\* older message wins the tie), and stops at the first predecessor for
\* which neither holds.
C27_SwapsPastYounger ==
    [][\A c \in Cores : ReRanks(c) => ReRankedBy(MoreOrYounger, loc[c].rpc)]_vars

\* A core is about to re-rank an RPC whose predecessor has the same
\* bytes_remaining and a later birth, and another such call is about to
\* meet a predecessor with the same bytes_remaining and an older birth.
C27_Witness ==
    \E c \in Cores :
        LET list == homa.grantable_rpcs
            r == loc[c].rpc
        IN  /\ pc[c] = "dp_grantable" /\ Listed(r) /\ IndexOf(list, r) > 1
            /\ msgin[list[IndexOf(list, r) - 1]].bytes_remaining = msgin[r].bytes_remaining
            /\ msgin[list[IndexOf(list, r) - 1]].birth > msgin[r].birth

\* ------------------------------------------------------ grant-round claims
\* C28: homa_choose_rpcs_to_grant never returns more than max_overcommit
\* RPCs, for every max_overcommit from 0 to MAX_GRANTS and every list. The
\* code does not keep this for max_overcommit 0: the test of
\* num_rpcs >= max_rpcs follows the store of the first RPC.
C28_AtMostMaxOvercommit ==
    /\ homa.max_overcommit \in 0..MAX_GRANTS
    /\ Len(homa_choose_rpcs_to_grant(homa, homa.max_overcommit)) <= homa.max_overcommit
    /\ \A c \in Cores : Len(loc[c].grants) <= homa.max_overcommit

\* The grants core c has created, as a function of rank: the rank of a
\* grant is the position of its RPC among the chosen RPCs, from 0.
RankOf(c, k) == IndexOf(ChosenAt(c), loc[c].grants[k].rpc) - 1

\* C29: with n chosen RPCs, the grant for the RPC of rank r carries
\* priority max(0, max_sched_prio - r) when n exceeds the number of
\* scheduled levels (max_sched_prio + 1) and n - 1 - r otherwise; the
\* priorities do not increase with the rank, the highest-ranked RPC gets
\* the highest priority of the round, and all lie in 0..max_sched_prio.
C29_PriorityBand ==
    \A c \in Cores : pc[c] = "sg_xmit" =>
        LET n == Len(ChosenAt(c))
            grants == loc[c].grants
        IN  /\ \A k \in 1..Len(grants) :
                  /\ grants[k].priority
                        = IF n > homa.max_sched_prio + 1
                          THEN Max(0, homa.max_sched_prio - RankOf(c, k))
                          ELSE n - 1 - RankOf(c, k)
                  /\ grants[k].priority \in 0..homa.max_sched_prio
                  /\ grants[k].priority <= grants[1].priority
            /\ \A j, k \in 1..Len(grants) :
                  RankOf(c, j) < RankOf(c, k) => grants[j].priority >= grants[k].priority
            /\ \A k \in 1..Len(grants) :
                  RankOf(c, k) = n - 1 /\ n <= homa.max_sched_prio + 1
                      => grants[k].priority = 0

\* Four RPCs have been chosen with three scheduled levels (priorities 2, 1,
\* 0 and 0 again for the last one).
C29_Witness ==
    /\ pc["c1"] = "sg_xmit"
    /\ homa.max_sched_prio = 2
    /\ Len(ChosenAt("c1")) = 4
    /\ [k \in 1..Len(loc["c1"].grants) |-> loc["c1"].grants[k].priority] = <<2, 1, 0, 0>>

\* The sum of a sequence of numbers.
RECURSIVE SumOf(_)
SumOf(seq) == IF seq = <<>> THEN 0 ELSE Head(seq) + SumOf(Tail(seq))

\* The increments a round is to give to the RPCs of `chosen`, in rank
\* order: each RPC is raised to min(received + window, length), but by no
\* more than what is left of `available`; an RPC that is there already or
\* beyond gets nothing.
RECURSIVE RoundIncrements(_, _, _)
RoundIncrements(chosen, window, available) ==
    IF chosen = <<>> THEN <<>>
    ELSE LET m == msgin[Head(chosen)]
             target == Min(m.length - m.bytes_remaining + window, m.length)
             increment == IF target - m.granted <= 0 THEN 0
                          ELSE Min(target - m.granted, available)
         IN  <<increment>> \o RoundIncrements(Tail(chosen), window, available - increment)

\* The window of a round with n chosen RPCs.
RoundWindow(n) == IF homa.window # 0 THEN homa.window ELSE homa.max_incoming \div (n + 1)

\* C30: homa_create_grants raises granted of each chosen RPC, in rank
\* order, to min(received + window, length), window being homa.window or,
\* if that is zero, max_incoming / (n + 1), reduced so that the increments
\* add up to no more than `available`; an RPC whose increment is not
\* positive is left as it was and gets no grant; the sum of the increments
\* is added to total_incoming and subtracted from grant_nonfifo_left.
C30_GrantIncrements ==
    [][\A c \in Cores :
          (pc[c] = "sg_locked" /\ pc'[c] = "sg_xmit") =>
              LET chosen == homa_choose_rpcs_to_grant(homa, homa.max_overcommit)
                  incs == RoundIncrements(chosen, RoundWindow(Len(chosen)),
                                          loc[c].available)
                  granted == SelectSeq([k \in 1..Len(chosen) |->
                                           [rpc |-> chosen[k], inc |-> incs[k]]],
                                       LAMBDA g : g.inc > 0)
              IN  /\ SumOf(incs) <= loc[c].available
                  /\ \A k \in 1..Len(chosen) :
                        /\ msgin'[chosen[k]].granted = msgin[chosen[k]].granted + incs[k]
                        /\ incs[k] = 0 =>
                              /\ msgin'[chosen[k]] = msgin[chosen[k]]
                              /\ rpcs'[chosen[k]] = rpcs[chosen[k]]
                  /\ \A r \in Rpcs : ~Contains(chosen, r) => msgin'[r] = msgin[r]
                  /\ Len(loc'[c].grants) = Len(granted)
                  /\ \A k \in 1..Len(granted) :
                        /\ loc'[c].grants[k].rpc = granted[k].rpc
                        /\ loc'[c].grants[k].offset = msgin'[granted[k].rpc].granted
                  /\ homa'.total_incoming = homa.total_incoming + SumOf(incs)
                  /\ homa'.grant_nonfifo_left = homa.grant_nonfifo_left - SumOf(incs)]_vars

\* A round with window 1000 and 2500 bytes available has just raised three
\* RPCs by 1000, 1000 and 500 bytes: the third grant was reduced.
C30_Witness ==
    /\ pc["c1"] = "sg_xmit"
    /\ homa.window = 1000 /\ homa.max_incoming = 2500
    /\ Len(loc["c1"].grants) = 3
    /\ homa.total_incoming = 2500
    /\ \E r \in Rpcs : msgin[r].granted = msgin[r].length - msgin[r].bytes_remaining + 500

\* --------------------------------------------------------------- claim C31
\* The bytes of r that have been granted and not yet received.
OnTheWay(w, r) ==
    w.msgin[r].granted - (w.msgin[r].length - w.msgin[r].bytes_remaining)

\* The RPCs on the grantable list that qualify for a FIFO grant.
Qualified(w) ==
    {r \in Rpcs : OnGrantable(w, r) /\ OnTheWay(w, r) <= w.homa.unsched_bytes}

\* The world in which homa_send_grants calls homa_choose_fifo_grant, when
\* core c computes its grants in the current state.
FifoCallWorld(c) ==
    LET cg == SendGrantsScheduled(World, loc[c].available) IN
    [cg.w EXCEPT !.homa.grant_nonfifo_left = @ + cg.w.homa.grant_nonfifo]

\* Core c calls homa_choose_fifo_grant in this step.
FifoCall(c) ==
    /\ pc[c] = "sg_locked" /\ pc'[c] = "sg_xmit"
    /\ SendGrantsScheduled(World, loc[c].available).w.homa.grant_nonfifo_left <= 0
    /\ homa.grant_fifo_fraction # 0

\* The step leaves the world w as it is.
SameWorld(w) == msgin' = w.msgin /\ rpcs' = w.rpcs /\ homa' = w.homa /\ hsk' = w.hsk

\* The step is the pity grant for r in the world w: granted advances by
\* fifo_grant_increment capped at the length, total_incoming by the same
\* amount, and r leaves the list when it is fully granted.
PityGrant(w, r) ==
    LET m == w.msgin[r]
        advance == Min(w.homa.fifo_grant_increment, m.length - m.granted)
        list == w.homa.grantable_rpcs
    IN  /\ msgin' = [w.msgin EXCEPT ![r].granted = m.granted + advance]
        /\ homa'.total_incoming = w.homa.total_incoming + advance
        /\ homa'.grantable_rpcs =
               IF m.granted + advance = m.length THEN Without(list, r) ELSE list
        /\ homa'.grant_nonfifo_left = w.homa.grant_nonfifo_left

\* C31: homa_choose_fifo_grant selects, among the RPCs on the grantable
\* list whose bytes on the way are at most unsched_bytes, one with the
\* oldest birth; it advances its granted by fifo_grant_increment capped at
\* the length, unlinks it when it is fully granted, and adds the advance to
\* total_incoming; if no RPC qualifies nothing changes and no FIFO grant is
\* sent; a FIFO GRANT that is sent names the chosen RPC and has priority
\* max_sched_prio.
C31_FifoGrant ==
    [][\A c \in Cores :
          /\ FifoCall(c) =>
                LET w == FifoCallWorld(c) IN
                IF Qualified(w) = {}
                THEN SameWorld(w) /\ loc'[c].fifo_rpc = NULL
                ELSE \E r \in Qualified(w) :
                        /\ \A q \in Qualified(w) : w.msgin[r].birth <= w.msgin[q].birth
                        /\ PityGrant(w, r)
                        /\ loc'[c].fifo_rpc \in {r, NULL}
                        /\ loc'[c].fifo_rpc = r => loc'[c].fifo_grant = msgin'[r].granted
          /\ (pc[c] = "sg_xmit" /\ pc'[c] # "sg_xmit") =>
                /\ sent' \ sent \subseteq
                       {[type |-> "GRANT", id |-> loc[c].fifo_rpc,
                         offset |-> loc[c].fifo_grant, priority |-> homa.max_sched_prio]}
                /\ loc[c].fifo_rpc = NULL => sent' = sent]_vars

\* homa_choose_fifo_grant has chosen RPC 4, which is older than RPC 2 and
\* stood behind it on the list; both qualified. The pity grant was cut
\* short at the end of the message of RPC 4, which has left the list, and
\* the core is about to send the FIFO GRANT.
C31_Witness ==
    \E c \in Cores :
        /\ pc[c] = "sg_xmit"
        /\ loc[c].fifo_rpc = 4
        /\ loc[c].fifo_grant = 3 * GrantSeg + GrantTail
        /\ homa.grantable_rpcs = <<2>>
        /\ OnTheWay(World, 2) <= homa.unsched_bytes
        /\ msgin[4].birth < msgin[2].birth

\* --------------------------------------------------------------- claim C32
\* A core has chosen a FIFO grant up to offset s for r and has not yet
\* reached the test of line 1040.
FifoPending(r, s) ==
    \E c \in Cores :
        pc[c] = "sg_xmit" /\ loc[c].fifo_rpc = r /\ loc[c].fifo_grant = s

\* A FIFO GRANT with offset s has been sent for r.
FifoSent(r, s) == \E p \in sent : p.type = "GRANT" /\ p.id = r /\ p.offset = s

\* Both cores of the race x have passed the test of line 1040.
RaceOver(x) == ~FifoPending(x.rpc, x.low) /\ ~FifoPending(x.rpc, x.high)

\* C32 (as stated): when two cores have chosen FIFO grants for the same RPC
\* before either reached the test of line 1040, exactly one FIFO GRANT is
\* sent for them, the one with the larger offset.
C32_OneFifoGrantPerRace ==
    \A x \in races :
        RaceOver(x) => FifoSent(x.rpc, x.high) /\ ~FifoSent(x.rpc, x.low)

\* C32 (amended): of two FIFO grants chosen for the same RPC before either
\* core reached the test of line 1040, the one with the smaller offset is
\* never sent; the one with the larger offset is sent unless msgin.granted
\* of the RPC has been raised once more before its core reached the test.
C32_AtMostOneFifoGrantPerRace ==
    \A x \in races :
        /\ ~FifoSent(x.rpc, x.low)
        /\ RaceOver(x) => FifoSent(x.rpc, x.high) \/ msgin[x.rpc].granted > x.high

\* A race for RPC 4 is over: the FIFO GRANT with the larger offset has been
\* sent, the core with the smaller one has sent nothing.
C32_Witness ==
    \E x \in races :
        /\ x.rpc = 4 /\ x.low < x.high
        /\ RaceOver(x)
        /\ FifoSent(4, x.high) /\ ~FifoSent(4, x.low)
        /\ msgin[4].granted = x.high

\* --------------------------------------------------------------- claim C33
\* Core c runs homa_rpc_handoff for r in this step.
HandoffStep(c, r) ==
    /\ pc[c] \in {"dp_handoff", "ab_handoff"} /\ pc'[c] # pc[c]
    /\ loc[c].rpc = r

\* The step hands r to the interest of thread t, and to nothing else.
DeliveredTo(r, t) ==
    /\ "RPC_HANDING_OFF" \in rpcs'[r].flags
    /\ interests'[t].ready_rpc = r
    /\ interests'[t].reg_rpc = NULL
    /\ ~Contains(hsk'.request_interests, t) /\ ~Contains(hsk'.response_interests, t)
    /\ \A q \in Rpcs : rpcs'[q].interest # t
    /\ \A q \in Rpcs \ {r} : rpcs[q].interest # t => rpcs'[q].interest = rpcs[q].interest
    /\ hsk'.request_interests = Without(hsk.request_interests, t)
    /\ hsk'.response_interests = Without(hsk.response_interests, t)
    /\ \A u \in Receivers \ {t} : interests'[u] = interests[u]
    /\ hsk'.ready_requests = hsk.ready_requests
    /\ hsk'.ready_responses = hsk.ready_responses

\* The step links r at the tail of its ready queue, and does nothing else.
QueuedAtTail(r) ==
    /\ hsk'.ready_responses =
           IF homa_is_client(r) THEN Append(hsk.ready_responses, r) ELSE hsk.ready_responses
    /\ hsk'.ready_requests =
           IF homa_is_client(r) THEN hsk.ready_requests ELSE Append(hsk.ready_requests, r)
    /\ "RPC_HANDING_OFF" \notin rpcs'[r].flags
    /\ interests' = interests
    /\ hsk'.request_interests = hsk.request_interests
    /\ hsk'.response_interests = hsk.response_interests
    /\ \A q \in Rpcs : rpcs'[q].interest = rpcs[q].interest

\* C33: homa_rpc_handoff delivers the RPC to exactly one destination: the
\* interest registered on the RPC if there is one; else an interest of the
\* response list (client RPC) or request list (server RPC) if that list is
\* not empty; else the tail of the ready queue of its kind. Handing to an
\* interest sets RPC_HANDING_OFF, stores the RPC in ready_rpc and removes
\* the interest from both lists and from the RPC it was registered on. If
\* the RPC is already RPC_HANDING_OFF or queued, nothing changes.
C33_HandoffDestination ==
    [][\A c \in Cores : \A r \in Rpcs : HandoffStep(c, r) =>
          LET list == IF homa_is_client(r) THEN hsk.response_interests
                      ELSE hsk.request_interests
          IN  IF "RPC_HANDING_OFF" \in rpcs[r].flags \/ OnReady(World, r)
              THEN /\ hsk' = hsk /\ interests' = interests
                   /\ \A q \in Rpcs : /\ rpcs'[q].interest = rpcs[q].interest
                                       /\ rpcs'[q].flags = rpcs[q].flags
              ELSE IF rpcs[r].interest # NoThread THEN DeliveredTo(r, rpcs[r].interest)
              ELSE IF list # <<>>
              THEN \E i \in 1..Len(list) : DeliveredTo(r, list[i])
              ELSE QueuedAtTail(r)]_vars

\* The request of server RPC 3 has been handed to thread t2, which waited
\* for requests and for RPC 2 by id: its interest is off the request list
\* and off RPC 2, while thread t1 still waits for a response.
C33_Witness ==
    /\ interests["t2"].ready_rpc = 3
    /\ "RPC_HANDING_OFF" \in rpcs[3].flags
    /\ pc["t2"] = "wait" /\ loc["t2"].id = R1
    /\ rpcs[R1].interest = NoThread
    /\ hsk.request_interests = <<>>
    /\ hsk.response_interests = <<"t1">>

\* --------------------------------------------------------------- claim C34
\* Thread t is inside homa_wait_for_message.
InsideWait(t) == pc[t] \notin {"idle", "done"}

\* C34 (as stated): for every RPC and every interest of a thread inside
\* homa_wait_for_message, rpc->interest is the interest if and only if
\* interest->reg_rpc is the RPC.
C34_PointersAgree ==
    \A t \in Receivers : \A r \in Rpcs :
        InsideWait(t) => (rpcs[r].interest = t <=> interests[t].reg_rpc = r)

\* Thread t has not yet withdrawn its interests (lines 1721-1733).
BeforeTeardown(t) == pc[t] \in {"wait", "reap", "reg_lock", "found"}

\* C34 (amended): rpc->interest is the interest only if interest->reg_rpc
\* is the RPC; interest->reg_rpc is the RPC only if rpc->interest is the
\* interest, until the thread withdraws its interests at found_rpc, which
\* clears rpc->interest and leaves interest->reg_rpc as it is.
C34_PointersAgreeUntilTeardown ==
    \A t \in Receivers : \A r \in Rpcs :
        /\ rpcs[r].interest = t => InsideWait(t) /\ interests[t].reg_rpc = r
        /\ (BeforeTeardown(t) /\ interests[t].reg_rpc = r) => rpcs[r].interest = t

\* Thread t1 sleeps with its interest registered on RPC 2, and thread t2
\* has withdrawn its interests after a handoff that cleared both pointers.
C34_Witness ==
    /\ pc["t1"] = "wait"
    /\ rpcs[R1].interest = "t1" /\ interests["t1"].reg_rpc = R1
    /\ pc["t2"] = "found_rpc" /\ interests["t2"].reg_rpc = NULL
    /\ interests["t2"].ready_rpc = R1

\* --------------------------------------------------------------- claim C35
\* The packet types whose handlers use the RPC.
NeedsRpc == {"DATA", "GRANT", "UNKNOWN", "BUSY"}

\* Core c leaves the lookup of homa_pkt_dispatch: the packet is handled or
\* discarded in this step.
Handles(c) ==
    /\ pc[c] \in {"pd_lookup", "pd_find"}
    /\ pc'[c] \in {"pd_next", "pd_reap", "pd_acks"}

\* Neither the lock cache of core c nor the RPC table has an RPC for the
\* packet of core c.
NoRpcFor(c) == ~FindRpc(World, CurPkt(c).id) /\ loc[c].rpc # CurPkt(c).id

\* The packet of core c is a DATA packet with a server-side id.
IsRequest(c) == CurPkt(c).type = "DATA" /\ ~homa_is_client(CurPkt(c).id)

\* What homa_pkt_dispatch does with the packet of core c when it has
\* settled the RPC; mayfail tells whether homa_rpc_new_server may fail.
DispatchRule(c, mayfail) ==
    LET h == CurPkt(c) IN
    Handles(c) =>
       /\ last'.handler \in {"discard", h.type}
       /\ last'.handler \in NeedsRpc =>
             /\ last'.rpc = h.id
             /\ rpcs'[h.id].state # "NONE"
             /\ rpcs'[h.id].lock = c \/ pc'[c] = "pd_reap"
       /\ (IsRequest(c) /\ NoRpcFor(c)) =>
             \/ last' = Called("DATA", h.id, {}) /\ rpcs'[h.id].state = "RPC_INCOMING"
             \/ /\ mayfail
                /\ last' = Called("discard", NULL, {})
                /\ UNCHANGED <<msgin, rpcs, homa, hsk, interests>>
       /\ (h.type \in NeedsRpc /\ ~IsRequest(c) /\ NoRpcFor(c)) =>
             /\ last' = Called("discard", NULL, {})
             /\ UNCHANGED <<msgin, rpcs, homa, hsk, interests>>
       /\ (last'.handler # "discard" /\ last'.rpc = NULL) =>
             /\ h.type \in {"CUTOFFS", "NEED_ACK", "ACK", "RESEND"}
             /\ h.type = "RESEND" =>
                   /\ last'.out = {Ctl("UNKNOWN", h.id, <<>>)}
                   /\ UNCHANGED <<msgin, rpcs, homa, hsk, interests>>

\* The RPCs without their locks.
Unlocked(f) == [r \in Rpcs |-> [f[r] EXCEPT !.lock = NoThread]]

\* Core c is in homa_pkt_dispatch with a packet of a type that needs an
\* RPC, for an id that has no RPC and will not get one.
DiscardsUnknown(c) ==
    /\ pc[c] \in {"pd_ack", "pd_lookup", "pd_find"}
    /\ pc'[c] # pc[c]
    /\ CurPkt(c).type \in NeedsRpc
    /\ ~IsRequest(c)
    /\ NoRpcFor(c)

\* C35 (as stated): homa_pkt_dispatch runs the DATA, GRANT, UNKNOWN and
\* BUSY handlers only with an RPC; a DATA packet for an unknown server-side
\* id creates a server RPC; a DATA, GRANT, BUSY or UNKNOWN packet for which
\* no RPC exists is freed and no step of its dispatch changes RPC, socket or
\* grant state (the release of the lock cache aside); only CUTOFFS,
\* NEED_ACK, ACK and RESEND are handled with a NULL RPC, RESEND by sending
\* UNKNOWN.
C35_NoHandlerWithoutRpc ==
    [][\A c \in Cores :
          /\ DispatchRule(c, FALSE)
          /\ DiscardsUnknown(c) =>
                /\ Unlocked(rpcs') = Unlocked(rpcs)
                /\ UNCHANGED <<msgin, homa, hsk, interests>>]_vars

\* C35 (amended): as above, except that the server RPC is not created and
\* the packet is discarded when homa_rpc_new_server fails, and that the ack
\* carried by a DATA packet is handled (the acknowledged server RPC is
\* freed) before the packet's own RPC is looked up, also when the packet is
\* then discarded for lack of an RPC.
C35_NoHandlerWithoutRpcButAck ==
    [][\A c \in Cores :
          /\ DispatchRule(c, TRUE)
          /\ DiscardsUnknown(c) =>
                \/ /\ Unlocked(rpcs') = Unlocked(rpcs)
                   /\ UNCHANGED <<msgin, homa, hsk, interests>>
                \/ /\ pc[c] = "pd_ack"
                   /\ <<msgin', rpcs', homa', hsk', interests'>> =
                         LET w == homa_rpc_acked(World, c, CurPkt(c).ack)
                         IN  <<w.msgin, w.rpcs, w.homa, w.hsk, w.interests>>]_vars

\* A packet of a type that needs an RPC has just been discarded for lack of
\* one, after its ack freed server RPC 3, which an earlier DATA packet had
\* created.
C35_Witness ==
    /\ pc["c1"] = "pd_next"
    /\ last = Called("discard", NULL, {})
    /\ rpcs[AckedRpc].state = "RPC_DEAD"
    /\ rpcs[UnknownRpc].state = "NONE"
    /\ msgin[AckedRpc].length >= 0

\* --------------------------------------------------------------- claim C36
\* The response of client RPC r has been received completely.
FullyReceived(r) == rpcs[r].state = "RPC_INCOMING" /\ msgin[r].bytes_remaining = 0

Registering(t) == pc[t] \in {"idle", "again"} /\ pc'[t] # pc[t]

\* C37: between homa_register_interests and the teardown of the interest,
\* ready_rpc is written at most once: once it holds an RPC, no step other
\* than the next registration changes it.
C37_ReadyRpcWrittenOnce ==
    [][\A t \in Receivers :
          (interests[t].ready_rpc # NULL /\ ~Registering(t)) =>
              interests'[t].ready_rpc = interests[t].ready_rpc]_vars

\* --------------------------------------------------------------- claim C38
\* C38: every handoff is consumed: an RPC with RPC_HANDING_OFF set
\* eventually has the flag cleared, and a thread that sleeps with an RPC in
\* its ready_rpc eventually leaves the sleep.
C38_HandoffConsumed ==
    /\ \A r \in Rpcs :
          ("RPC_HANDING_OFF" \in rpcs[r].flags) ~> ("RPC_HANDING_OFF" \notin rpcs[r].flags)
    /\ \A t \in Receivers :
          (pc[t] = "wait" /\ interests[t].ready_rpc # NULL) ~> (pc[t] # "wait")

\* --------------------------------------------------------------- claim C39
\* Thread t is at a homa_rpc_lock for RPC r: claim_rpc (line 1582),
\* found_rpc (line 1744), homa_copy_to_user (line 298), or
\* homa_find_client_rpc at the next registration by id (line 1507).
Wants(t, r) ==
    \/ pc[t] = "reg_lock" /\ loc[t].rpc = r
    \/ pc[t] = "found_rpc" /\ interests[t].ready_rpc = r /\ ~interests[t].locked
    \/ pc[t] = "cu_relock" /\ loc[t].rpc = r
    \/ pc[t] = "again" /\ loc[t].id = r /\ FindClientRpc(World, r)

\* The threads that hold a lock thread t is waiting for.
Blockers(t) == {u \in Threads : \E r \in Rpcs : Wants(t, r) /\ rpcs[r].lock = u}

\* The threads reached from S in at most n steps of "waits for a lock of".
RECURSIVE WaitChain(_, _)
WaitChain(S, n) ==
    IF n = 0 THEN S ELSE WaitChain(S \cup UNION {Blockers(u) : u \in S}, n - 1)

\* No thread waits for a lock it holds itself, and no threads wait for one
\* another in a cycle.
NoWaitCycle == \A t \in Threads : t \notin WaitChain(Blockers(t), Cardinality(Threads))

\* Every RPC lock is held by a thread that is inside an operation, which
\* will release it: none is left behind by a thread that has returned.
NoLockLeftBehind == \A t \in Threads : pc[t] = "idle" => ~HoldsRpc(t)

\* C39: no execution deadlocks on the locks: no thread requests a lock it
\* already holds, there is never a cycle of threads each waiting for a lock
\* held by the next, and no lock is held forever by a thread that has left
\* the code that should release it (the socket lock and the grantable lock
\* are taken and released within one step, under at most one RPC lock).
C39_NoLockDeadlock == NoWaitCycle /\ NoLockLeftBehind

\* --------------------------------------------------------------- claim C40
\* Thread t has dropped the lock of RPC r for a batch in homa_copy_to_user
\* and will dequeue again after it has taken the lock back (lines 216-301).
WillExamine(t, r) ==
    /\ loc[t].rpc = r
    /\ \/ pc[t] = "cu_copy"
       \/ pc[t] = "cu_relock" /\ loc[t].error = 0

\* Someone will look at the packet queue of RPC r: it is on a ready list,
\* being handed off, or in the hands of a receiver between two batches.
Attended(r) ==
    \/ Contains(hsk.ready_requests, r) \/ Contains(hsk.ready_responses, r)
    \/ "RPC_HANDING_OFF" \in rpcs[r].flags
    \/ \E t \in Receivers : WillExamine(t, r)

CopyFailed(r) ==
    \/ rpcs[r].error # 0
    \/ \E t \in Receivers :
          loc[t].rpc = r /\ pc[t] = "cu_relock" /\ loc[t].error # 0

====
